---- MODULE Spec2Model ----
(***************************************************************************)
(* Model of thumbnail_designer.py: the scene model (background, three     *)
(* layer collections, layer_order, selections), the editor handlers of    *)
(* ThumbnailDesigner and the compositor render_thumbnail.                 *)
(*                                                                         *)
(* Conventions.  Python floats are kept as integer hundredths (0.85 is    *)
(* 85, 1.0 is 100).  None is the string "None".  The canvas is a small    *)
(* base_width x base_height grid of RGBA pixels <<r, g, b, a>>; lengths   *)
(* given in canvas pixels by the scene (corner radius, blur radius,       *)
(* stroke width, shadow offsets) are below the resolution of that grid    *)
(* and fall inside the pixel they belong to.                              *)
(***************************************************************************)
EXTENDS Integers, Sequences, FiniteSets, TLC

(***************************************************************************)
(* Bounds of the model.                                                    *)
(***************************************************************************)
base_width == 4
base_height == 2
MaxLayers == 4
MaxOrder == 2
MaxSteps == 4
MaxRenderSteps == 3
MaxKeys == 2
MaxChars == 5

None == "None"

Max(a, b) == IF a >= b THEN a ELSE b
Min(a, b) == IF a <= b THEN a ELSE b

\* Python int() of the rational n/d (d > 0): truncation towards zero.
IntTrunc(n, d) == IF n >= 0 THEN n \div d ELSE -((-n) \div d)

clamp(value, min_value, max_value) == Max(min_value, Min(value, max_value))

(***************************************************************************)
(* Colours.  ImageColor.getrgb of the "#rrggbb" strings the model uses.    *)
(***************************************************************************)
Colors ==
    {"#111111", "#101010", "#202020", "#ff3838", "#ffcf00", "#ffffff", "#000000",
     "#0080ff"}

getrgb(hex_color) ==
    CASE hex_color = "#111111" -> <<17, 17, 17>>
      [] hex_color = "#101010" -> <<16, 16, 16>>
      [] hex_color = "#202020" -> <<32, 32, 32>>
      [] hex_color = "#ff3838" -> <<255, 56, 56>>
      [] hex_color = "#ffcf00" -> <<255, 207, 0>>
      [] hex_color = "#ffffff" -> <<255, 255, 255>>
      [] hex_color = "#000000" -> <<0, 0, 0>>
      [] hex_color = "#0080ff" -> <<0, 128, 255>>

\* Variant: the alpha is taken as given.
hex_to_rgbaUnclamped(hex_color, alpha) ==
    <<getrgb(hex_color)[1], getrgb(hex_color)[2], getrgb(hex_color)[3],
      IntTrunc(alpha * 255, 100)>>

\* alpha is in hundredths: int(clamp(alpha, 0, 1) * 255)
hex_to_rgba(hex_color, alpha) ==
    <<getrgb(hex_color)[1], getrgb(hex_color)[2], getrgb(hex_color)[3],
      (clamp(alpha, 0, 100) * 255) \div 100>>

(***************************************************************************)
(* Images.                                                                 *)
(***************************************************************************)
Pixels == (0 .. base_width - 1) \X (0 .. base_height - 1)

\* Image.new("RGBA", size, rgba)
ImageNew(rgba) == [p \in Pixels |-> rgba]

\* Image.new("RGBA", size, "#rrggbb"): opaque fill
ImageNewColor(hex_color) == ImageNew(hex_to_rgba(hex_color, 100))

Transparent == ImageNew(<<0, 0, 0, 0>>)

SHIFTFORDIV255(a) == (((a \div 256) + a) \div 256)

\* One pixel of Image.alpha_composite (source over destination), in the
\* integer arithmetic of the imaging library (7 bits of extra precision):
\*   blend = dst.a * (255 - src.a);  outa255 = src.a * 255 + blend
\*   coef1 = src.a * 255 * 255 * 128 / outa255;  coef2 = 255 * 128 - coef1
\*   out.c = SHIFTFORDIV255(src.c * coef1 + dst.c * coef2 + (0x80 << 7)) >> 7
\*   out.a = SHIFTFORDIV255(outa255 + 0x80)
CompositeChannel(dst_c, src_c, coef1) ==
    SHIFTFORDIV255(src_c * coef1 + dst_c * (255 * 128 - coef1) + 128 * 128) \div 128

CompositeWith(dst, src, outa255, coef1) ==
    <<CompositeChannel(dst[1], src[1], coef1), CompositeChannel(dst[2], src[2], coef1),
      CompositeChannel(dst[3], src[3], coef1), SHIFTFORDIV255(outa255 + 128)>>

CompositeOuta(dst, src, outa255) ==
    CompositeWith(dst, src, outa255, (src[4] * 255 * 255 * 128) \div outa255)

AlphaCompositePixel(dst, src) ==
    IF src[4] = 0 THEN dst
    ELSE CompositeOuta(dst, src, src[4] * 255 + dst[4] * (255 - src[4]))

\* Image.alpha_composite(im1, im2): im2 over im1, a new image
AlphaComposite(im1, im2) == [p \in Pixels |-> AlphaCompositePixel(im1[p], im2[p])]

(***************************************************************************)
(* Dataclasses with their defaults.  A layer's id is supplied by the       *)
(* caller: it stands for the uuid4 the default factory draws.              *)
(***************************************************************************)
GradientSettings ==
    [start_color |-> "#ff3838", end_color |-> "#ffcf00", direction |-> "horizontal"]

BackgroundSettings ==
    [mode |-> "solid", solid_color |-> "#202020", gradient |-> GradientSettings,
     image_path |-> None, blur_radius |-> 0, brightness |-> 100,
     contrast |-> 100, saturation |-> 100]

ShadowSettings ==
    [enabled |-> TRUE, offset_x |-> 6, offset_y |-> 6, blur_radius |-> 12,
     color |-> "#000000", opacity |-> 60]

StrokeSettings == [width |-> 6, color |-> "#ffffff"]

TextLayer(new_id) ==
    [id |-> new_id, label |-> "Judul Utama", text |-> <<<<"Judul", "Thumbnail", "Menarik">>>>,
     font_file |-> "Montserrat-ExtraBold.ttf", font_size |-> 150,
     color |-> "#ffffff", align |-> "center", position_x |-> 50,
     position_y |-> 35, max_width |-> 90, tracking |-> 0, rotation |-> 0,
     shadow |-> ShadowSettings, stroke |-> StrokeSettings]

ImageLayer(new_id) ==
    [id |-> new_id, label |-> "Gambar", image_path |-> None, scale |-> 100,
     rotation |-> 0, position_x |-> 75, position_y |-> 65, opacity |-> 100,
     flip_horizontal |-> FALSE, flip_vertical |-> FALSE, add_shadow |-> TRUE,
     shadow_blur |-> 24, shadow_offset_x |-> 0, shadow_offset_y |-> 12,
     shadow_opacity |-> 70]

OverlayLayer(new_id) ==
    [id |-> new_id, label |-> "Highlight", mode |-> "rectangle",
     color |-> "#ff3838", opacity |-> 85, position_x |-> 50, position_y |-> 30,
     width |-> 80, height |-> 25, blur_radius |-> 0, rotation |-> 0,
     rounded |-> 40]

\* Variant: the keyword arguments are dropped.
ConstructDefaults(defaults, payload) == defaults

\* Cls(**payload): the keyword arguments replace the defaults field by field.
Construct(defaults, payload) ==
    [f \in DOMAIN defaults |-> IF f \in DOMAIN payload THEN payload[f] ELSE defaults[f]]

\* The payloads of the model give nested settings as (partial) maps or omit them.
create_background_settings(data) ==
    IF DOMAIN data = {} THEN BackgroundSettings
    ELSE LET gradient == IF "gradient" \in DOMAIN data
                         THEN Construct(GradientSettings, data.gradient)
                         ELSE GradientSettings
         IN  [Construct(BackgroundSettings, data) EXCEPT !.gradient = gradient]

create_text_layer(data, new_id) ==
    IF DOMAIN data = {} THEN TextLayer(new_id)
    ELSE LET shadow == IF "shadow" \in DOMAIN data
                       THEN Construct(ShadowSettings, data.shadow)
                       ELSE ShadowSettings
             stroke == IF "stroke" \in DOMAIN data
                       THEN Construct(StrokeSettings, data.stroke)
                       ELSE StrokeSettings
         IN  [Construct(TextLayer(new_id), data) EXCEPT !.shadow = shadow, !.stroke = stroke]

create_image_layer(data, new_id) ==
    IF DOMAIN data = {} THEN ImageLayer(new_id) ELSE Construct(ImageLayer(new_id), data)

create_overlay_layer(data, new_id) ==
    IF DOMAIN data = {} THEN OverlayLayer(new_id) ELSE Construct(OverlayLayer(new_id), data)

\* dataclasses.asdict: the field map of a layer (nested settings as maps)
asdict(layer) == layer

(***************************************************************************)
(* The file system the renderer reads: FONTS_DIR is the set of font files  *)
(* present in assets/fonts, disk maps an image path to "missing",          *)
(* "unreadable" (Image.open raises OSError) or "ok".  Both are fields of   *)
(* the state record s the operators below take, next to the attributes of  *)
(* the ThumbnailDesigner object.                                           *)
(***************************************************************************)
FontFiles == {"Montserrat-ExtraBold.ttf", "Poppins-Bold.ttf"}
Paths == {"photo.png", "cutout.png"}
FileStatus == {"missing", "unreadable", "ok"}

\* The decoded picture: one RGBA value for the whole file.
ImageContent(path) ==
    IF path = "photo.png" THEN <<0, 128, 255, 255>> ELSE <<255, 207, 0, 128>>

\* Path(p).exists() and Image.open(p).convert("RGBA") succeeding
PathExists(s, path) == path \in DOMAIN s.disk /\ s.disk[path] # "missing"
PathReadable(s, path) == path \in DOMAIN s.disk /\ s.disk[path] = "ok"

\* ensure_font_path: TRUE when it returns, FALSE when it raises FileNotFoundError
ensure_font_path(s, font_file) == font_file \in s.FONTS_DIR

(***************************************************************************)
(* ImageEnhance.  factor is in hundredths.  Image.blend(degenerate, image, *)
(* factor) per channel, alpha included (the degenerate image carries the   *)
(* alpha of the image).                                                    *)
(***************************************************************************)
ClipByte(temp) == IF temp <= 0 THEN 0 ELSE IF temp >= 255 THEN 255 ELSE temp

BlendChannel(in1, in2, factor) == ClipByte(IntTrunc(100 * in1 + factor * (in2 - in1), 100))

\* blend of the grey (or black) pixel <<grey, grey, grey, px.a>> with px
BlendGrey(grey, px, factor) ==
    <<BlendChannel(grey, px[1], factor), BlendChannel(grey, px[2], factor),
      BlendChannel(grey, px[3], factor), px[4]>>

\* convert("L") of one pixel
Luma(px) == (px[1] * 19595 + px[2] * 38470 + px[3] * 7471 + 32768) \div 65536

RECURSIVE SumLuma(_, _)
SumLuma(img, ps) ==
    IF ps = {} THEN 0
    ELSE Luma(img[CHOOSE q \in ps : TRUE]) + SumLuma(img, ps \ {CHOOSE q \in ps : TRUE})

\* int(mean + 0.5) of the "L" image
MeanLuma(img) == (2 * SumLuma(img, Pixels) + Cardinality(Pixels)) \div (2 * Cardinality(Pixels))

EnhanceBrightness(img, factor) == [p \in Pixels |-> BlendGrey(0, img[p], factor)]

ContrastAround(img, mean, factor) == [p \in Pixels |-> BlendGrey(mean, img[p], factor)]

EnhanceContrast(img, factor) == ContrastAround(img, MeanLuma(img), factor)

EnhanceColor(img, factor) == [p \in Pixels |-> BlendGrey(Luma(img[p]), img[p], factor)]

CorrectBrightness(s, img) ==
    IF s.background.brightness # 100 THEN EnhanceBrightness(img, s.background.brightness)
    ELSE img

CorrectContrast(s, img) ==
    IF s.background.contrast # 100 THEN EnhanceContrast(img, s.background.contrast)
    ELSE img

CorrectSaturation(s, img) ==
    IF s.background.saturation # 100 THEN EnhanceColor(img, s.background.saturation)
    ELSE img

\* Variant: the contrast is corrected before the brightness.
_apply_background_correctionsContrastFirst(s, img) ==
    CorrectSaturation(s, CorrectBrightness(s, CorrectContrast(s, img)))

_apply_background_corrections(s, img) ==
    CorrectSaturation(s, CorrectContrast(s, CorrectBrightness(s, img)))

(***************************************************************************)
(* Background renderer.                                                    *)
(***************************************************************************)
\* int(start[i] + (end[i] - start[i]) * num / den) for the four channels
Interpolate(start, end, num, den) ==
    [i \in 1 .. 4 |-> IntTrunc(start[i] * den + (end[i] - start[i]) * num, den)]

\* Variant: the diagonal ratio is 1 at the far corner.
GradientLayerFull(start, end, direction) ==
    [p \in Pixels |->
        IF direction = "horizontal"
        THEN Interpolate(start, end, p[1], base_width - 1)
        ELSE IF direction = "vertical"
        THEN Interpolate(start, end, p[2], base_height - 1)
        ELSE Interpolate(start, end, p[1] + p[2], base_width + base_height - 2)]

\* Variant: the ratio is taken over the width and the height.
GradientLayerShort(start, end, direction) ==
    [p \in Pixels |->
        IF direction = "horizontal"
        THEN Interpolate(start, end, p[1], base_width)
        ELSE IF direction = "vertical"
        THEN Interpolate(start, end, p[2], base_height)
        ELSE Interpolate(start, end, p[1] + p[2], base_width + base_height)]

GradientLayer(start, end, direction) ==
    [p \in Pixels |->
        IF direction = "horizontal"
        THEN Interpolate(start, end, p[1], base_width - 1)
        ELSE IF direction = "vertical"
        THEN Interpolate(start, end, p[2], base_height - 1)
        ELSE Interpolate(start, end, p[1] + p[2], base_width + base_height)]

_render_gradient_background(s) ==
    _apply_background_corrections(s,
        GradientLayer(hex_to_rgba(s.background.gradient.start_color, 100),
                      hex_to_rgba(s.background.gradient.end_color, 100),
                      s.background.gradient.direction))

\* Variant: the fallback returns an empty image instead of the solid base.
_render_image_backgroundBare(s) ==
    IF s.background.image_path = None \/ ~PathExists(s, s.background.image_path)
    THEN Transparent
    ELSE IF ~PathReadable(s, s.background.image_path)
    THEN Transparent
    ELSE AlphaComposite(ImageNewColor(s.background.solid_color),
            _apply_background_corrections(s, ImageNew(ImageContent(s.background.image_path))))

\* ImageOps.fit of a one-colour picture fills the canvas with that colour,
\* and the Gaussian blur of a one-colour picture is the picture.
_render_image_background(s) ==
    IF s.background.image_path = None \/ ~PathExists(s, s.background.image_path)
    THEN ImageNewColor(s.background.solid_color)
    ELSE IF ~PathReadable(s, s.background.image_path)
    THEN ImageNewColor(s.background.solid_color)
    ELSE AlphaComposite(ImageNewColor(s.background.solid_color),
            _apply_background_corrections(s, ImageNew(ImageContent(s.background.image_path))))

\* Variant: the solid background goes through the corrections as well.
BackgroundLayerCorrected(s) ==
    IF s.background.mode = "solid"
    THEN _apply_background_corrections(s, ImageNewColor(s.background.solid_color))
    ELSE IF s.background.mode = "gradient" THEN _render_gradient_background(s)
    ELSE _render_image_background(s)

BackgroundLayer(s) ==
    IF s.background.mode = "solid" THEN ImageNewColor(s.background.solid_color)
    ELSE IF s.background.mode = "gradient" THEN _render_gradient_background(s)
    ELSE _render_image_background(s)

(***************************************************************************)
(* Shape renderer.  rect is <<x0, y0, x1, y1>>, both corners included.     *)
(* The Gaussian blur and the rotation of the layer are resampling steps of *)
(* the imaging library; the model keeps the shape as drawn.                *)
(***************************************************************************)
InRect(p, rect) ==
    /\ rect[1] <= p[1] /\ p[1] <= rect[3]
    /\ rect[2] <= p[2] /\ p[2] <= rect[4]

\* centre of the pixel inside the ellipse with axes w and h inscribed in rect
InEllipseOf(p, rect, w, h) ==
    /\ InRect(p, rect)
    /\ ((2 * p[1] - (rect[1] + rect[3])) * h) * ((2 * p[1] - (rect[1] + rect[3])) * h)
       + ((2 * p[2] - (rect[2] + rect[4])) * w) * ((2 * p[2] - (rect[2] + rect[4])) * w)
       <= w * w * h * h

InEllipse(p, rect) == InEllipseOf(p, rect, rect[3] - rect[1] + 1, rect[4] - rect[2] + 1)

\* triangle (xa, ytop), (xm, ybottom), (xb, ytop) with xa <= xm <= xb
InFlag(p, xa, xm, xb, ytop, ybottom) ==
    /\ ytop <= p[2] /\ p[2] <= ybottom
    /\ p[1] * (ybottom - ytop) >= xa * (ybottom - ytop) + (xm - xa) * (p[2] - ytop)
    /\ p[1] * (ybottom - ytop) <= xb * (ybottom - ytop) - (xb - xm) * (p[2] - ytop)
    /\ xa <= p[1] /\ p[1] <= xb

\* the banner: the rounded rectangle above the lower quarter and the two flags
InBanner(p, rect, width, height) ==
    \/ InRect(p, <<rect[1], rect[2], rect[3], rect[4] - IntTrunc(height * 25, 100)>>)
    \/ InFlag(p, rect[1], rect[1] + width \div 4, rect[1] + width \div 2,
              rect[4] - IntTrunc(height * 35, 100), rect[4])
    \/ InFlag(p, rect[3] - width \div 2, rect[3] - width \div 4, rect[3],
              rect[4] - IntTrunc(height * 35, 100), rect[4])

Drawn(p, mode, rect, width, height) ==
    IF mode = "rectangle" THEN InRect(p, rect)
    ELSE IF mode = "circle" THEN InEllipse(p, rect)
    ELSE IF mode = "banner" THEN InBanner(p, rect, width, height)
    ELSE FALSE

OverlayShape(mode, color, rect, width, height) ==
    [p \in Pixels |-> IF Drawn(p, mode, rect, width, height) THEN color ELSE <<0, 0, 0, 0>>]

OverlayAt(layer, width, height, x, y) ==
    OverlayShape(layer.mode, hex_to_rgba(layer.color, layer.opacity),
                 <<x - width \div 2, y - height \div 2, x + width \div 2, y + height \div 2>>,
                 width, height)

_render_overlay_layer(s, layer) ==
    OverlayAt(layer, IntTrunc(base_width * layer.width, 100),
              IntTrunc(base_height * layer.height, 100),
              IntTrunc(base_width * layer.position_x, 100),
              IntTrunc(base_height * layer.position_y, 100))

(***************************************************************************)
(* Text renderer.  text is the list of the lines of layer.text, each line  *)
(* the list line.split(" ") of its words.  The glyphs of a layer fall in   *)
(* the pixel of the grid that holds the layer's position.  With the shadow *)
(* on, text_image is rebound to the composite of itself and the shadow     *)
(* while text_draw still draws on the image it was made for: the stroke    *)
(* and the fill go to the image left behind and the result holds the       *)
(* shadow only.                                                            *)
(***************************************************************************)
\* not line.strip()
BlankLine(words) == \A i \in 1 .. Len(words) : words[i] = ""

HasGlyphs(text) == \E i \in 1 .. Len(text) : ~BlankLine(text[i])

GlyphPixel(layer) ==
    <<IntTrunc(base_width * layer.position_x, 100),
      IntTrunc(base_height * layer.position_y, 100)>>

TextInk(layer) ==
    IF layer.shadow.enabled /\ layer.shadow.opacity > 0
    THEN hex_to_rgba(layer.shadow.color, layer.shadow.opacity)
    ELSE hex_to_rgba(layer.color, 100)

TextImage(layer) ==
    [p \in Pixels |->
        IF HasGlyphs(layer.text) /\ p = GlyphPixel(layer) THEN TextInk(layer)
        ELSE <<0, 0, 0, 0>>]

\* what an entry of layer_order contributes: nothing, an exception, or an image
Skip == [kind |-> "skip", image |-> Transparent]
Raise == [kind |-> "raise", image |-> Transparent]
Raster(img) == [kind |-> "raster", image |-> img]

\* Raise when ensure_font_path raises, else the returned image
_render_text_layer(s, layer) ==
    IF ~ensure_font_path(s, layer.font_file) THEN Raise
    ELSE Raster(AlphaComposite(Transparent, TextImage(layer)))

(***************************************************************************)
(* Image-layer renderer.  The source picture is square and of one colour,  *)
(* so mirror, flip and the rotation by 0 degrees leave it as it is.        *)
(***************************************************************************)
\* MULDIV255 of the imaging library
MULDIV255(a, b) == SHIFTFORDIV255(a * b + 128)

\* alpha.point(lambda p: int(p * layer.opacity)) when opacity < 1.0
Faded(px, opacity) ==
    IF opacity < 100 THEN <<px[1], px[2], px[3], IntTrunc(px[4] * opacity, 100)>>
    ELSE px

\* the shadow under one pixel of the picture: black through the alpha mask
ShadowUnder(px, layer) ==
    IF layer.add_shadow /\ layer.shadow_opacity > 0
    THEN AlphaCompositePixel(<<0, 0, 0, 0>>,
            <<0, 0, 0, MULDIV255(px[4], hex_to_rgba("#000000", layer.shadow_opacity)[4])>>)
    ELSE <<0, 0, 0, 0>>

Pasted(px, layer) == AlphaCompositePixel(ShadowUnder(px, layer), px)

\* int(self.base_width * 0.4 * layer.scale)
target_width(layer) == IntTrunc(base_width * 40 * layer.scale, 10000)

ImageAt(layer, px, size, x, y) ==
    [p \in Pixels |->
        IF InRect(p, <<x, y, x + size - 1, y + size - 1>>) THEN Pasted(px, layer)
        ELSE <<0, 0, 0, 0>>]

ImagePlaced(layer, px, size) ==
    ImageAt(layer, px, size,
            IntTrunc(2 * base_width * layer.position_x - 100 * size, 200),
            IntTrunc(2 * base_height * layer.position_y - 100 * size, 200))

\* Variant: a missing or unreadable source gives a solid placeholder.
_render_image_layerPlaceholder(s, layer) ==
    IF layer.image_path = None \/ ~PathExists(s, layer.image_path)
    THEN ImageNewColor("#000000")
    ELSE IF ~PathReadable(s, layer.image_path) THEN ImageNewColor("#000000")
    ELSE ImagePlaced(layer, Faded(ImageContent(layer.image_path), layer.opacity),
                     target_width(layer))

_render_image_layer(s, layer) ==
    IF layer.image_path = None \/ ~PathExists(s, layer.image_path) THEN Transparent
    ELSE IF ~PathReadable(s, layer.image_path) THEN Transparent
    ELSE ImagePlaced(layer, Faded(ImageContent(layer.image_path), layer.opacity),
                     target_width(layer))

(***************************************************************************)
(* Compositor: render_thumbnail.                                           *)
(***************************************************************************)
\* next((l for l in layers if l.id == layer_id), None): the position of the
\* first layer with that id, 0 for None
FindIndex(layers, layer_id) ==
    IF \E i \in 1 .. Len(layers) : layers[i].id = layer_id
    THEN CHOOSE i \in 1 .. Len(layers) :
            /\ layers[i].id = layer_id
            /\ \A j \in 1 .. i - 1 : layers[j].id # layer_id
    ELSE 0

\* Variant: next(...) without a default, an unknown id raises.
OverlayEntryStrict(s, i) ==
    IF i = 0 THEN Raise ELSE Raster(_render_overlay_layer(s, s.overlay_layers[i]))

OverlayEntry(s, i) ==
    IF i = 0 THEN Skip ELSE Raster(_render_overlay_layer(s, s.overlay_layers[i]))

ImageEntry(s, i) ==
    IF i = 0 THEN Skip
    ELSE IF s.image_layers[i].image_path = None THEN Skip
    ELSE Raster(_render_image_layer(s, s.image_layers[i]))

TextEntry(s, i) == IF i = 0 THEN Skip ELSE _render_text_layer(s, s.text_layers[i])

\* the body of the loop over layer_order for one entry
EntryRaster(s, entry) ==
    IF entry[1] = "overlay" THEN OverlayEntry(s, FindIndex(s.overlay_layers, entry[2]))
    ELSE IF entry[1] = "image" THEN ImageEntry(s, FindIndex(s.image_layers, entry[2]))
    ELSE IF entry[1] = "text" THEN TextEntry(s, FindIndex(s.text_layers, entry[2]))
    ELSE Skip

\* Variant: the previous canvas is kept and drawn over the new background.
RenderBaseReused(s) ==
    AlphaComposite(AlphaComposite(ImageNewColor("#111111"), BackgroundLayer(s)),
                   s.latest_image)

\* base_image after the background is composited
RenderBase(s) == AlphaComposite(ImageNewColor("#111111"), BackgroundLayer(s))

\* Variant: the loop walks layer_order from its end.
PaintIndexReversed(s, k) == Len(s.layer_order) - k + 1

\* the entry the k-th iteration of the loop takes
PaintIndex(s, k) == k

\* Variant: the raster goes beneath base_image.
PaintBeneath(acc, ras) ==
    IF acc.raised THEN acc
    ELSE IF ras.kind = "raise" THEN [acc EXCEPT !.raised = TRUE]
    ELSE IF ras.kind = "skip" THEN acc
    ELSE [acc EXCEPT !.image = AlphaComposite(ras.image, @)]

\* base_image = Image.alpha_composite(base_image, raster), unless an earlier
\* entry raised
Paint(acc, ras) ==
    IF acc.raised THEN acc
    ELSE IF ras.kind = "raise" THEN [acc EXCEPT !.raised = TRUE]
    ELSE IF ras.kind = "skip" THEN acc
    ELSE [acc EXCEPT !.image = AlphaComposite(@, ras.image)]

\* base_image after the first k entries of layer_order
RECURSIVE RenderPrefix(_, _)
RenderPrefix(s, k) ==
    IF k = 0 THEN [raised |-> FALSE, image |-> RenderBase(s)]
    ELSE Paint(RenderPrefix(s, k - 1), EntryRaster(s, s.layer_order[PaintIndex(s, k)]))

preview_width == base_width \div 2
preview_height == base_height \div 2

RECURSIVE SumChannel(_, _, _)
SumChannel(img, ps, i) ==
    IF ps = {} THEN 0
    ELSE img[CHOOSE q \in ps : TRUE][i] + SumChannel(img, ps \ {CHOOSE q \in ps : TRUE}, i)

\* the canvas pixels behind the preview pixel q
Block(q) ==
    {p \in Pixels : /\ p[1] \div (base_width \div preview_width) = q[1]
                    /\ p[2] \div (base_height \div preview_height) = q[2]}

\* base_image.resize((preview_width, preview_height)): the mean of each block
Resize(img) ==
    [q \in (0 .. preview_width - 1) \X (0 .. preview_height - 1) |->
        [i \in 1 .. 4 |-> SumChannel(img, Block(q), i) \div Cardinality(Block(q))]]

\* the scene model: what a render reads and must not write
Scene(s) ==
    [background |-> s.background, text_layers |-> s.text_layers,
     image_layers |-> s.image_layers, overlay_layers |-> s.overlay_layers,
     layer_order |-> s.layer_order, current_text_id |-> s.current_text_id,
     current_image_id |-> s.current_image_id,
     current_overlay_id |-> s.current_overlay_id]

\* the scene at the call and at the return (or the raise) of the render
Record(s, out) ==
    [out EXCEPT !.render_entry = <<Scene(s)>>, !.render_exit = <<Scene(out)>>]

\* Variant: a render that cannot load the background picture switches the
\* scene to the solid background.
FinishRepairing(s, r) ==
    IF r.raised THEN [s EXCEPT !.raised = "FileNotFoundError"]
    ELSE [s EXCEPT !.latest_image = r.image, !.preview_photo = Resize(r.image),
                   !.background.mode =
                       IF @ = "image" /\ ~PathReadable(s, s.background.image_path)
                       THEN "solid" ELSE @]

\* Variant: latest_image is assigned inside the loop, so a render that raises
\* leaves what it had composited.
FinishPartial(s, r) ==
    IF r.raised
    THEN [s EXCEPT !.raised = "FileNotFoundError", !.latest_image = r.image,
                   !.preview_photo = Resize(r.image)]
    ELSE [s EXCEPT !.latest_image = r.image, !.preview_photo = Resize(r.image)]

\* self.latest_image = base_image and the preview, reached only when no
\* layer raised
Finish(s, r) ==
    IF r.raised THEN [s EXCEPT !.raised = "FileNotFoundError"]
    ELSE [s EXCEPT !.latest_image = r.image, !.preview_photo = Resize(r.image)]

render_thumbnail(s) == Record(s, Finish(s, RenderPrefix(s, Len(s.layer_order))))

(***************************************************************************)
(* State: the attributes of the ThumbnailDesigner object, the widgets the  *)
(* handlers read back (the three list boxes and the layer tree), the file  *)
(* system, and the outcome of the last handler.                            *)
(***************************************************************************)
VARIABLES
    background,          \* BackgroundSettings
    text_layers,         \* list of TextLayer
    image_layers,        \* list of ImageLayer
    overlay_layers,      \* list of OverlayLayer
    current_text_id,     \* id or None
    current_image_id,
    current_overlay_id,
    layer_order,         \* list of <<layer_type, id>>
    text_list,           \* list box: [items, sel], sel is curselection()
    overlay_list,
    image_list,
    layer_tree,          \* tree view: [items, sel], sel is selection()
    latest_image,        \* the canvas of the last render that returned
    preview_photo,
    font_options,        \* the font files found when the window was built
    FONTS_DIR,           \* the font files present in assets/fonts
    disk,                \* image path -> FileStatus
    raised,              \* the exception the last handler ended with, or None
    render_entry,        \* <<scene>> at the call of the last render, or <<>>
    render_exit,         \* <<scene>> when that render returned or raised
    budget,              \* handlers the exploration may still run
    probe,               \* the last call of a function outside a handler, or <<>>
    heap                 \* the text layers as objects with their references, or <<>>

vars == <<background, text_layers, image_layers, overlay_layers, current_text_id,
          current_image_id, current_overlay_id, layer_order, text_list,
          overlay_list, image_list, layer_tree, latest_image, preview_photo,
          font_options, FONTS_DIR, disk, raised, render_entry, render_exit, budget,
          probe, heap>>

\* the attributes of the designer and the outcome of its last handler
designer == <<background, text_layers, image_layers, overlay_layers, current_text_id,
              current_image_id, current_overlay_id, layer_order, text_list,
              overlay_list, image_list, layer_tree, latest_image, preview_photo,
              font_options, FONTS_DIR, disk, raised, render_entry, render_exit, budget,
              heap>>

\* The state as one record, the argument s of the operators.
Self ==
    [background |-> background, text_layers |-> text_layers,
     image_layers |-> image_layers, overlay_layers |-> overlay_layers,
     current_text_id |-> current_text_id, current_image_id |-> current_image_id,
     current_overlay_id |-> current_overlay_id, layer_order |-> layer_order,
     text_list |-> text_list, overlay_list |-> overlay_list,
     image_list |-> image_list, layer_tree |-> layer_tree,
     latest_image |-> latest_image, preview_photo |-> preview_photo,
     font_options |-> font_options, FONTS_DIR |-> FONTS_DIR, disk |-> disk,
     raised |-> raised, render_entry |-> render_entry, render_exit |-> render_exit]

\* the handler returns to the event loop: s is the window it leaves, p the
\* call on record
\* the handler returns: the window is s, the store of objects is h
Stored(s, p, h) ==
    /\ budget > 0
    /\ budget' = budget - 1
    /\ background' = s.background
    /\ text_layers' = s.text_layers
    /\ image_layers' = s.image_layers
    /\ overlay_layers' = s.overlay_layers
    /\ current_text_id' = s.current_text_id
    /\ current_image_id' = s.current_image_id
    /\ current_overlay_id' = s.current_overlay_id
    /\ layer_order' = s.layer_order
    /\ text_list' = s.text_list
    /\ overlay_list' = s.overlay_list
    /\ image_list' = s.image_list
    /\ layer_tree' = s.layer_tree
    /\ latest_image' = s.latest_image
    /\ preview_photo' = s.preview_photo
    /\ font_options' = s.font_options
    /\ FONTS_DIR' = s.FONTS_DIR
    /\ disk' = s.disk
    /\ raised' = s.raised
    /\ render_entry' = s.render_entry
    /\ render_exit' = s.render_exit
    /\ probe' = p
    /\ heap' = h

Committed(s, p) == Stored(s, p, heap)

Commit(s) == Committed(s, probe)

\* A handler or an event of the environment starts: no exception yet, no
\* render yet.
Begin(s) == [s EXCEPT !.raised = None, !.render_entry = <<>>, !.render_exit = <<>>]

(***************************************************************************)
(* uuid4.  Ids are only compared for equality; a new id is one the state   *)
(* holds nowhere, and the model takes the first such id of the pool.       *)
(***************************************************************************)
IdCount == 3 * MaxLayers + 3
Uuid(i) == "u" \o ToString(i)
IdPool == {Uuid(i) : i \in 1 .. IdCount}

IdsOf(layers) == {layers[i].id : i \in 1 .. Len(layers)}

UsedIds(s) ==
    IdsOf(s.text_layers) \cup IdsOf(s.image_layers) \cup IdsOf(s.overlay_layers)
    \cup {s.layer_order[i][2] : i \in 1 .. Len(s.layer_order)}
    \cup {s.current_text_id, s.current_image_id, s.current_overlay_id}
    \cup {s.layer_tree.items[i][2] : i \in 1 .. Len(s.layer_tree.items)}

\* the n-th new id (n = 1, 2, ...) relative to the state s
uuid4(s, n) ==
    Uuid(CHOOSE i \in 1 .. IdCount :
            /\ Uuid(i) \notin UsedIds(s)
            /\ Cardinality({j \in 1 .. i - 1 : Uuid(j) \notin UsedIds(s)}) = n - 1)

(***************************************************************************)
(* Widgets.  A list box keeps at most one selected row (browse mode) and   *)
(* exports its selection: setting a selection in one list box takes the    *)
(* selection away from the other two.  Rows are numbered from 0.           *)
(***************************************************************************)
ListNames == {"text_list", "overlay_list", "image_list"}

RemoveAt(seq, i) == [j \in 1 .. Len(seq) - 1 |-> IF j < i THEN seq[j] ELSE seq[j + 1]]

\* seq[i] with a Python index: negative indices count from the end
PyItem(seq, i) == IF i >= 0 THEN seq[i + 1] ELSE seq[Len(seq) + i + 1]

\* list.insert(tk.END, label)
ListInsertEnd(lb, label) == [lb EXCEPT !.items = Append(@, label)]

\* list.delete(idx)
ListDelete(lb, idx) ==
    [items |-> RemoveAt(lb.items, idx + 1),
     sel |-> IF lb.sel = <<>> THEN <<>>
             ELSE IF lb.sel[1] = idx THEN <<>>
             ELSE IF lb.sel[1] > idx THEN <<lb.sel[1] - 1>>
             ELSE lb.sel]

\* list.delete(0, tk.END)
ListClear(lb) == [items |-> <<>>, sel |-> <<>>]

\* list.selection_clear(0, tk.END); list.selection_set(index)
selection_set(s, which, index) ==
    IF index >= Len(s[which].items) THEN [s EXCEPT ![which].sel = <<>>]
    ELSE [f \in DOMAIN s |->
            IF f = which THEN [s[f] EXCEPT !.sel = <<index>>]
            ELSE IF f \in ListNames THEN [s[f] EXCEPT !.sel = <<>>]
            ELSE s[f]]

\* _refresh_layer_tree: the tree lists layer_order; rebuilding it drops the
\* tree selection.
_refresh_layer_tree(s) ==
    [s EXCEPT !.layer_tree = [items |-> s.layer_order, sel |-> <<>>]]

(***************************************************************************)
(* Selection handlers.                                                     *)
(***************************************************************************)
\* the row of the list box follows when the layer is found (index from 1)
SelectRow(s, which, index) ==
    IF index # 0 THEN selection_set(s, which, index - 1) ELSE s

_select_text_layer(s, layer_id) ==
    SelectRow([s EXCEPT !.current_text_id = layer_id], "text_list",
              FindIndex(s.text_layers, layer_id))

_select_overlay_layer(s, layer_id) ==
    SelectRow([s EXCEPT !.current_overlay_id = layer_id], "overlay_list",
              FindIndex(s.overlay_layers, layer_id))

_select_image_layer(s, layer_id) ==
    SelectRow([s EXCEPT !.current_image_id = layer_id], "image_list",
              FindIndex(s.image_layers, layer_id))

\* _get_current_text / _get_current_overlay / _get_current_image: the
\* position of the current layer in its collection, 0 for None
_get_current_text(s) ==
    IF s.current_text_id = None THEN 0 ELSE FindIndex(s.text_layers, s.current_text_id)

_get_current_overlay(s) ==
    IF s.current_overlay_id = None THEN 0
    ELSE FindIndex(s.overlay_layers, s.current_overlay_id)

_get_current_image(s) ==
    IF s.current_image_id = None THEN 0 ELSE FindIndex(s.image_layers, s.current_image_id)

(***************************************************************************)
(* Layer handlers.                                                         *)
(***************************************************************************)
TotalLayers(s) == Len(s.text_layers) + Len(s.image_layers) + Len(s.overlay_layers)

\* for layer in layers: list.insert(tk.END, layer.label)
Labels(layers) == [i \in 1 .. Len(layers) |-> layers[i].label]

\* for layer in layers: layer_order.append((layer_type, layer.id))
Entries(layer_type, layers) == [i \in 1 .. Len(layers) |-> <<layer_type, layers[i].id>>]

DefaultHeadline(new_id) ==
    create_text_layer(
            [label |-> "Headline",
             text |-> <<<<"Tingkatkan", "Views">>, <<"Dalam", "5", "Menit!">>>>,
             font_size |-> 170], new_id)

DefaultSubhead(new_id) ==
    create_text_layer(
            [label |-> "Subheadline",
             text |-> <<<<"Strategi", "Thumbnail", "Viral">>>>,
             font_size |-> 90, position_y |-> 62, color |-> "#ffcf00",
             shadow |-> [enabled |-> TRUE, offset_x |-> 4, offset_y |-> 4,
                         blur_radius |-> 8, color |-> "#000000", opacity |-> 70],
             stroke |-> [width |-> 4, color |-> "#111111"]], new_id)

DefaultBanner(new_id) ==
    create_overlay_layer(
            [label |-> "Banner", mode |-> "banner", color |-> "#ff3838",
             opacity |-> 88, position_x |-> 50, position_y |-> 60,
             width |-> 90, height |-> 30, rotation |-> -2], new_id)

\* text_layers.extend([headline, subhead]); overlay_layers.append(overlay);
\* a list row and an order entry for every layer of text_layers, then for
\* the overlay; the headline becomes the current text layer
AddDefaults(s, headline, subhead, overlay) ==
    [s EXCEPT
        !.text_layers = @ \o <<headline, subhead>>,
        !.overlay_layers = Append(@, overlay),
        !.text_list.items = @ \o Labels(s.text_layers \o <<headline, subhead>>),
        !.overlay_list = ListInsertEnd(@, overlay.label),
        !.layer_order = (@ \o Entries("text", s.text_layers \o <<headline, subhead>>))
                        \o <<<<"overlay", overlay.id>>>>,
        !.current_text_id = headline.id]

_add_default_layers(s) ==
    _refresh_layer_tree(selection_set(
        AddDefaults(s, DefaultHeadline(uuid4(s, 1)), DefaultSubhead(uuid4(s, 2)),
                    DefaultBanner(uuid4(s, 3))),
        "text_list", 0))

\* Variant: the clone is built from the defaults, not from asdict(current).
CloneTextDefaults(current, new_id) ==
    [TextLayer(new_id) EXCEPT !.label = current.label \o " (copy)"]

\* The clone of a duplicate: the fields of the source through asdict and
\* the factory, then a new id and the label with " (copy)".
CloneText(current, new_id) ==
    [create_text_layer(asdict(current), new_id) EXCEPT
        !.id = new_id, !.label = current.label \o " (copy)"]

\* Variant: clone.id is not assigned, the clone keeps the id asdict gave it.
CloneOverlaySameId(layer, new_id) ==
    [create_overlay_layer(asdict(layer), new_id) EXCEPT !.label = layer.label \o " (copy)"]

CloneOverlay(layer, new_id) ==
    [create_overlay_layer(asdict(layer), new_id) EXCEPT
        !.id = new_id, !.label = layer.label \o " (copy)"]

CloneImage(layer, new_id) ==
    [create_image_layer(asdict(layer), new_id) EXCEPT
        !.id = new_id, !.label = layer.label \o " (copy)"]

\* the tail shared by add and duplicate: append, list row, order entry, select
\* Variant: the order entry of the new layer goes to the bottom of the stack.
AppendTextBeneath(s, layer) ==
    LET s1 == [s EXCEPT !.text_layers = Append(@, layer),
                        !.text_list = ListInsertEnd(@, layer.label),
                        !.layer_order = <<<<"text", layer.id>>>> \o @]
    IN  render_thumbnail(_refresh_layer_tree(_select_text_layer(s1, layer.id)))

AppendText(s, layer) ==
    LET s1 == [s EXCEPT !.text_layers = Append(@, layer),
                        !.text_list = ListInsertEnd(@, layer.label),
                        !.layer_order = Append(@, <<"text", layer.id>>)]
    IN  render_thumbnail(_refresh_layer_tree(_select_text_layer(s1, layer.id)))

AppendOverlay(s, layer) ==
    LET s1 == [s EXCEPT !.overlay_layers = Append(@, layer),
                        !.overlay_list = ListInsertEnd(@, layer.label),
                        !.layer_order = Append(@, <<"overlay", layer.id>>)]
    IN  render_thumbnail(_refresh_layer_tree(_select_overlay_layer(s1, layer.id)))

AppendImage(s, layer) ==
    LET s1 == [s EXCEPT !.image_layers = Append(@, layer),
                        !.image_list = ListInsertEnd(@, layer.label),
                        !.layer_order = Append(@, <<"image", layer.id>>)]
    IN  render_thumbnail(_refresh_layer_tree(_select_image_layer(s1, layer.id)))

_add_text_layer(s) ==
    AppendText(s, create_text_layer(
        [label |-> "Teks " \o ToString(Len(s.text_layers) + 1)], uuid4(s, 1)))

_add_overlay_layer(s) ==
    AppendOverlay(s, create_overlay_layer(
        [label |-> "Highlight " \o ToString(Len(s.overlay_layers) + 1)], uuid4(s, 1)))

_add_image_layer(s) ==
    AppendImage(s, create_image_layer(
        [label |-> "Gambar " \o ToString(Len(s.image_layers) + 1)], uuid4(s, 1)))

\* the duplicate handlers, for a current layer that exists
_duplicate_text_layer(s) ==
    AppendText(s, CloneText(s.text_layers[_get_current_text(s)], uuid4(s, 1)))

_duplicate_overlay_layer(s) ==
    AppendOverlay(s, CloneOverlay(s.overlay_layers[_get_current_overlay(s)], uuid4(s, 1)))

_duplicate_image_layer(s) ==
    AppendImage(s, CloneImage(s.image_layers[_get_current_image(s)], uuid4(s, 1)))

\* Variant: layer_order is not filtered.
WithoutEntryKept(order, entry) == order

\* [item for item in layer_order if item != entry]
WithoutEntry(order, entry) == SelectSeq(order, LAMBDA item : item # entry)

\* layers.pop(idx), the order entry filtered out, list.delete(idx)
TextRemoved(s, idx) ==
    [s EXCEPT !.text_layers = RemoveAt(@, idx + 1),
              !.layer_order = WithoutEntry(@, <<"text", s.text_layers[idx + 1].id>>),
              !.text_list = ListDelete(@, idx)]

OverlayRemoved(s, idx) ==
    [s EXCEPT !.overlay_layers = RemoveAt(@, idx + 1),
              !.layer_order = WithoutEntry(@, <<"overlay", s.overlay_layers[idx + 1].id>>),
              !.overlay_list = ListDelete(@, idx)]

ImageRemoved(s, idx) ==
    [s EXCEPT !.image_layers = RemoveAt(@, idx + 1),
              !.layer_order = WithoutEntry(@, <<"image", s.image_layers[idx + 1].id>>),
              !.image_list = ListDelete(@, idx)]

\* self.current_text_id = self.text_layers[idx - 1].id if self.text_layers
\* else None; if self.current_text_id: self._select_text_layer(...)
ReselectText(s, idx) ==
    IF Len(s.text_layers) > 0
    THEN _select_text_layer(s, PyItem(s.text_layers, idx - 1).id)
    ELSE [s EXCEPT !.current_text_id = None]

ReselectOverlay(s, idx) ==
    IF Len(s.overlay_layers) > 0
    THEN _select_overlay_layer(s, PyItem(s.overlay_layers, Max(0, idx - 1)).id)
    ELSE [s EXCEPT !.current_overlay_id = None]

ReselectImage(s, idx) ==
    IF Len(s.image_layers) > 0
    THEN _select_image_layer(s, PyItem(s.image_layers, Max(0, idx - 1)).id)
    ELSE [s EXCEPT !.current_image_id = None]

\* the remove handlers, for a selected row of the list box
_remove_text_layer(s) ==
    render_thumbnail(_refresh_layer_tree(
        ReselectText(TextRemoved(s, s.text_list.sel[1]), s.text_list.sel[1])))

_remove_overlay_layer(s) ==
    render_thumbnail(_refresh_layer_tree(
        ReselectOverlay(OverlayRemoved(s, s.overlay_list.sel[1]), s.overlay_list.sel[1])))

_remove_image_layer(s) ==
    render_thumbnail(_refresh_layer_tree(
        ReselectImage(ImageRemoved(s, s.image_list.sel[1]), s.image_list.sel[1])))

\* <<ListboxSelect>> after the user picks row idx
_on_text_select(s, idx) ==
    [selection_set(s, "text_list", idx) EXCEPT !.current_text_id = s.text_layers[idx + 1].id]

_on_overlay_select(s, idx) ==
    [selection_set(s, "overlay_list", idx) EXCEPT
        !.current_overlay_id = s.overlay_layers[idx + 1].id]

_on_image_select(s, idx) ==
    render_thumbnail([selection_set(s, "image_list", idx) EXCEPT
                         !.current_image_id = s.image_layers[idx + 1].id])

\* <<TreeviewSelect>> with a selected item
SelectTreeItem(s, layer_type, layer_id) ==
    IF layer_type = "text" THEN _select_text_layer(s, layer_id)
    ELSE IF layer_type = "overlay" THEN _select_overlay_layer(s, layer_id)
    ELSE IF layer_type = "image" THEN _select_image_layer(s, layer_id)
    ELSE s

_on_tree_select(s) == SelectTreeItem(s, s.layer_tree.sel[1][1], s.layer_tree.sel[1][2])

\* list.insert(i, x) on a list without x, i a Python index in 0 .. len
InsertAt(seq, i, x) ==
    [j \in 1 .. Len(seq) + 1 |->
        IF j < i + 1 THEN seq[j] ELSE IF j = i + 1 THEN x ELSE seq[j - 1]]

\* position (from 0) of the first entry of layer_order the tree item names, -1 if none
OrderIndex(s, selected) ==
    IF \E i \in 1 .. Len(s.layer_order) : s.layer_order[i] = selected
    THEN (CHOOSE i \in 1 .. Len(s.layer_order) :
            /\ s.layer_order[i] = selected
            /\ \A j \in 1 .. i - 1 : s.layer_order[j] # selected) - 1
    ELSE -1

\* layer_order.insert(new_index, layer_order.pop(index))
\* Variant: the entry goes to the end of the list it was moved towards.
MovedToEnd(order, index, new_index) ==
    InsertAt(RemoveAt(order, index + 1),
             IF new_index > index THEN Len(order) - 1 ELSE 0, order[index + 1])

Moved(order, index, new_index) ==
    InsertAt(RemoveAt(order, index + 1), new_index, order[index + 1])

\* self.layer_tree.selection_set(...) after the render.  It raises
\* <<TreeviewSelect>>, whose handler runs next; a render that raised leaves
\* the method before it.
SelectShifted(s, new_index) ==
    IF s.raised # None THEN s
    ELSE _on_tree_select([s EXCEPT !.layer_tree.sel = <<s.layer_order[new_index + 1]>>])

ShiftFrom(s, index, new_index) ==
    SelectShifted(
        render_thumbnail(_refresh_layer_tree(
            [s EXCEPT !.layer_order = Moved(@, index, new_index)])),
        new_index)

\* _shift_layer for a tree selection that names an entry and can move
_shift_layer(s, direction) ==
    ShiftFrom(s, OrderIndex(s, s.layer_tree.sel[1]),
              clamp(OrderIndex(s, s.layer_tree.sel[1]) + direction, 0,
                    Len(s.layer_order) - 1))

_reset_layers(s) ==
    render_thumbnail(_add_default_layers(
        [s EXCEPT !.text_layers = <<>>, !.overlay_layers = <<>>,
                  !.image_layers = <<>>, !.layer_order = <<>>,
                  !.text_list = ListClear(@), !.overlay_list = ListClear(@),
                  !.image_list = ListClear(@)]))

(***************************************************************************)
(* Background and field handlers.                                          *)
(***************************************************************************)
_update_background_mode(s, mode) ==
    render_thumbnail([s EXCEPT !.background.mode = mode])

\* the file dialog returned file_path
_load_background_image(s, file_path) ==
    render_thumbnail([s EXCEPT !.background.image_path = file_path,
                               !.background.mode = "image"])

_clear_background_image(s) ==
    render_thumbnail([s EXCEPT !.background.image_path = None])

_set_gradient_direction(s, direction) ==
    render_thumbnail([s EXCEPT !.background.gradient.direction = direction])

_set_background_numeric(s, field_name, value) ==
    render_thumbnail([s EXCEPT !.background[field_name] = value])

\* Variant: the edit is stored and the preview is left as it is.
UpdateTextAtSilent(s, i, field_name, value) ==
    IF i = 0 THEN s
    ELSE [s EXCEPT !.text_layers[i][field_name] = value]

\* setattr on the layer, or on its stroke for the two stroke fields; any
\* other name is ignored
TextEdited(layer, field_name, value) ==
    IF field_name = "stroke_width" THEN [layer EXCEPT !.stroke.width = value]
    ELSE IF field_name = "stroke_color" THEN [layer EXCEPT !.stroke.color = value]
    ELSE IF field_name \in {"text", "color", "font_file", "font_size", "align",
                            "position_x", "position_y", "max_width",
                            "tracking", "rotation"}
    THEN [layer EXCEPT ![field_name] = value]
    ELSE layer

UpdateTextAt(s, i, field_name, value) ==
    IF i = 0 THEN s
    ELSE render_thumbnail([s EXCEPT !.text_layers[i] = TextEdited(@, field_name, value)])

_update_current_text(s, field_name, value) ==
    UpdateTextAt(s, _get_current_text(s), field_name, value)

ToggleShadowAt(s, i) ==
    IF i = 0 THEN s
    ELSE render_thumbnail([s EXCEPT !.text_layers[i].shadow.enabled = ~@])

_toggle_text_shadow(s) == ToggleShadowAt(s, _get_current_text(s))

UpdateShadowAt(s, i, field_name, value) ==
    IF i = 0 THEN s
    ELSE render_thumbnail([s EXCEPT !.text_layers[i].shadow[field_name] = value])

_update_shadow_value(s, field_name, value) ==
    UpdateShadowAt(s, _get_current_text(s), field_name, value)

UpdateOverlayAt(s, i, field_name, value) ==
    IF i = 0 THEN s
    ELSE render_thumbnail([s EXCEPT !.overlay_layers[i][field_name] = value])

_update_overlay(s, field_name, value) ==
    UpdateOverlayAt(s, _get_current_overlay(s), field_name, value)

UpdateImageAt(s, i, field_name, value) ==
    IF i = 0 THEN s
    ELSE render_thumbnail([s EXCEPT !.image_layers[i][field_name] = value])

_update_image(s, field_name, value) ==
    UpdateImageAt(s, _get_current_image(s), field_name, value)

\* the file dialog returned path
_change_image_path(s, path) == _update_image(s, "image_path", path)

ToggleImageShadowAt(s, i) ==
    IF i = 0 THEN s
    ELSE render_thumbnail([s EXCEPT !.image_layers[i].add_shadow = ~@])

_toggle_image_shadow(s) == ToggleImageShadowAt(s, _get_current_image(s))

ToggleImageFlipAt(s, i, field_name) ==
    IF i = 0 THEN s
    ELSE render_thumbnail([s EXCEPT !.image_layers[i][field_name] = ~@])

_toggle_image_flip(s, field_name) == ToggleImageFlipAt(s, _get_current_image(s), field_name)

\* the branch of _choose_color for the target
ColorApplied(s, target, color) ==
    IF target = "background_solid" THEN [s EXCEPT !.background.solid_color = color]
    ELSE IF target = "gradient_start"
    THEN [s EXCEPT !.background.gradient.start_color = color]
    ELSE IF target = "gradient_end"
    THEN [s EXCEPT !.background.gradient.end_color = color]
    ELSE IF target = "text_color" THEN _update_current_text(s, "color", color)
    ELSE IF target = "stroke_color" THEN _update_current_text(s, "stroke_color", color)
    ELSE IF target = "shadow_color" THEN _update_shadow_value(s, "color", color)
    ELSE IF target = "overlay_color" THEN _update_overlay(s, "color", color)
    ELSE s

\* the render that ends _choose_color, reached when the branch did not raise
RenderAgain(s) == IF s.raised # None THEN s ELSE render_thumbnail(s)

\* the colour dialog returned color
_choose_color(s, target, color) == RenderAgain(ColorApplied(s, target, color))

(***************************************************************************)
(* load_workspace.  data is the decoded JSON record; data.get(key, [])     *)
(* gives the empty list for a missing key.                                 *)
(***************************************************************************)
Get(data, key, default) == IF key \in DOMAIN data THEN data[key] ELSE default

\* the five assignments from the file
WorkspaceRead(s, settings, texts, images, overlays, order) ==
    [s EXCEPT
        !.background = create_background_settings(settings),
        !.text_layers = [i \in 1 .. Len(texts) |-> create_text_layer(texts[i], uuid4(s, i))],
        !.image_layers = [i \in 1 .. Len(images) |->
                             create_image_layer(images[i], uuid4(s, i))],
        !.overlay_layers = [i \in 1 .. Len(overlays) |->
                               create_overlay_layer(overlays[i], uuid4(s, i))],
        !.layer_order = [i \in 1 .. Len(order) |-> <<order[i][1], order[i][2]>>]]

\* the three list boxes refilled
ListsRefilled(s) ==
    [s EXCEPT !.text_list = [items |-> Labels(s.text_layers), sel |-> <<>>],
              !.overlay_list = [items |-> Labels(s.overlay_layers), sel |-> <<>>],
              !.image_list = [items |-> Labels(s.image_layers), sel |-> <<>>]]

FirstText(s) ==
    IF Len(s.text_layers) > 0 THEN _select_text_layer(s, s.text_layers[1].id)
    ELSE [s EXCEPT !.current_text_id = None]

FirstOverlay(s) ==
    IF Len(s.overlay_layers) > 0 THEN _select_overlay_layer(s, s.overlay_layers[1].id)
    ELSE [s EXCEPT !.current_overlay_id = None]

FirstImage(s) ==
    IF Len(s.image_layers) > 0 THEN _select_image_layer(s, s.image_layers[1].id)
    ELSE [s EXCEPT !.current_image_id = None]

\* Cls(**payload) raises TypeError for a keyword that is not a field
Accepted(defaults, payload) == DOMAIN payload \subseteq DOMAIN defaults

NestedAccepted(defaults, payload, key) ==
    key \in DOMAIN payload => Accepted(defaults, payload[key])

BackgroundAccepted(settings) ==
    /\ Accepted(BackgroundSettings, settings)
    /\ NestedAccepted(GradientSettings, settings, "gradient")

TextAccepted(layer) ==
    /\ Accepted(TextLayer(None), layer)
    /\ NestedAccepted(ShadowSettings, layer, "shadow")
    /\ NestedAccepted(StrokeSettings, layer, "stroke")

AllAccepted(defaults, layers) ==
    \A i \in 1 .. Len(layers) : Accepted(defaults, layers[i])

\* the assignment of load_workspace that raises TypeError: 1 for the
\* background, 2, 3, 4 for the text, image and overlay layers, 0 for none
FailedAssignment(data) ==
    IF ~BackgroundAccepted(Get(data, "background", <<>>)) THEN 1
    ELSE IF \E i \in 1 .. Len(Get(data, "text_layers", <<>>)) :
                ~TextAccepted(data.text_layers[i]) THEN 2
    ELSE IF ~AllAccepted(ImageLayer(None), Get(data, "image_layers", <<>>)) THEN 3
    ELSE IF ~AllAccepted(OverlayLayer(None), Get(data, "overlay_layers", <<>>)) THEN 4
    ELSE 0

\* the assignments before the one that raised have been made
WorkspaceReadUntil(s, read, failed) ==
    [s EXCEPT !.background = IF failed > 1 THEN read.background ELSE @,
              !.text_layers = IF failed > 2 THEN read.text_layers ELSE @,
              !.image_layers = IF failed > 3 THEN read.image_layers ELSE @,
              !.raised = "TypeError"]

\* the file is read into the window, every record accepted
WorkspaceLoaded(s, data) ==
    render_thumbnail(_refresh_layer_tree(FirstImage(FirstOverlay(FirstText(ListsRefilled(
        WorkspaceRead(s, Get(data, "background", <<>>), Get(data, "text_layers", <<>>),
                      Get(data, "image_layers", <<>>), Get(data, "overlay_layers", <<>>),
                      Get(data, "layer_order", <<>>))))))))

load_workspace(s, data) ==
    IF FailedAssignment(data) = 0 THEN WorkspaceLoaded(s, data)
    ELSE WorkspaceReadUntil(s,
             WorkspaceRead(s, Get(data, "background", <<>>), Get(data, "text_layers", <<>>),
                           Get(data, "image_layers", <<>>),
                           Get(data, "overlay_layers", <<>>), Get(data, "layer_order", <<>>)),
             FailedAssignment(data))

(***************************************************************************)
(* The workspace files of the model: three overlays, two text layers and   *)
(* two image layers, with every order list of at most MaxOrder distinct    *)
(* entries over them, a reference to a deleted layer and an unknown type   *)
(* tag.  "Ghost.ttf" is a font file that is not in assets/fonts.           *)
(***************************************************************************)
WorkspaceOverlays ==
    << [OverlayLayer("a") EXCEPT !.mode = "rectangle", !.color = "#ff3838", !.opacity = 100,
            !.position_x = 50, !.position_y = 50, !.width = 80, !.height = 100],
       [OverlayLayer("b") EXCEPT !.mode = "circle", !.color = "#ffcf00", !.opacity = 100,
            !.position_x = 25, !.position_y = 50, !.width = 80, !.height = 100],
       [OverlayLayer("c") EXCEPT !.mode = "banner", !.color = "#0080ff", !.opacity = 50,
            !.position_x = 75, !.position_y = 50, !.width = 80, !.height = 100] >>

WorkspaceTexts ==
    << [TextLayer("t") EXCEPT !.shadow.enabled = FALSE],
       [TextLayer("g") EXCEPT !.font_file = "Ghost.ttf"] >>

WorkspaceImages ==
    << [ImageLayer("n") EXCEPT !.image_path = None, !.position_x = 50],
       [ImageLayer("p") EXCEPT !.image_path = "photo.png", !.position_x = 50] >>

WorkspaceEntries ==
    {<<"overlay", "a">>, <<"overlay", "b">>, <<"overlay", "c">>, <<"text", "t">>,
     <<"text", "g">>, <<"image", "n">>, <<"image", "p">>,
     <<"overlay", "zz">>, <<"shape", "a">>}

RECURSIVE OrdersOfLength(_)
OrdersOfLength(n) ==
    IF n = 0 THEN {<<>>}
    ELSE {Append(o, e) : o \in OrdersOfLength(n - 1), e \in WorkspaceEntries}

Distinct(order) == \A i, j \in 1 .. Len(order) : i # j => order[i] # order[j]

WorkspaceOrders ==
    {o \in UNION {OrdersOfLength(n) : n \in 0 .. MaxOrder} : Distinct(o)}

Workspaces ==
    {[background |-> [mode |-> "solid"], text_layers |-> WorkspaceTexts,
      image_layers |-> WorkspaceImages, overlay_layers |-> WorkspaceOverlays,
      layer_order |-> o] : o \in WorkspaceOrders}

(***************************************************************************)
(* Construction: __init__ with the fonts found in assets/fonts.            *)
(***************************************************************************)
EmptyList == [items |-> <<>>, sel |-> <<>>]

Blank(fonts, files) ==
    [background |-> BackgroundSettings, text_layers |-> <<>>,
     image_layers |-> <<>>, overlay_layers |-> <<>>,
     current_text_id |-> None, current_image_id |-> None,
     current_overlay_id |-> None, layer_order |-> <<>>,
     text_list |-> EmptyList, overlay_list |-> EmptyList,
     image_list |-> EmptyList, layer_tree |-> EmptyList,
     latest_image |-> Transparent, preview_photo |-> Resize(Transparent),
     font_options |-> fonts, FONTS_DIR |-> fonts, disk |-> files,
     raised |-> None, render_entry |-> <<>>, render_exit |-> <<>>]

Constructed(fonts, files) == render_thumbnail(_add_default_layers(Blank(fonts, files)))

\* the window s with n handlers to run and the object store h
Started(s, n, h) ==
    /\ background = s.background
    /\ text_layers = s.text_layers
    /\ image_layers = s.image_layers
    /\ overlay_layers = s.overlay_layers
    /\ current_text_id = s.current_text_id
    /\ current_image_id = s.current_image_id
    /\ current_overlay_id = s.current_overlay_id
    /\ layer_order = s.layer_order
    /\ text_list = s.text_list
    /\ overlay_list = s.overlay_list
    /\ image_list = s.image_list
    /\ layer_tree = s.layer_tree
    /\ latest_image = s.latest_image
    /\ preview_photo = s.preview_photo
    /\ font_options = s.font_options
    /\ FONTS_DIR = s.FONTS_DIR
    /\ disk = s.disk
    /\ raised = s.raised
    /\ render_entry = s.render_entry
    /\ render_exit = s.render_exit
    /\ budget = n
    /\ probe = <<>>
    /\ heap = h

InitState(s, n) == Started(s, n, <<>>)

\* The window exists only if the first render returned.
Init == InitState(Constructed(FontFiles, [p \in Paths |-> "ok"]), MaxSteps)

InitRender == InitState(Constructed(FontFiles, [p \in Paths |-> "ok"]), MaxRenderSteps)

(***************************************************************************)
(* Actions: one per handler, with the inputs the user or the dialogs give. *)
(***************************************************************************)
AddText == /\ TotalLayers(Self) < MaxLayers
           /\ Commit(_add_text_layer(Begin(Self)))

AddOverlay == /\ TotalLayers(Self) < MaxLayers
              /\ Commit(_add_overlay_layer(Begin(Self)))

AddImage == /\ TotalLayers(Self) < MaxLayers
            /\ Commit(_add_image_layer(Begin(Self)))

DuplicateText == /\ TotalLayers(Self) < MaxLayers
                 /\ _get_current_text(Self) # 0
                 /\ Commit(_duplicate_text_layer(Begin(Self)))

DuplicateOverlay == /\ TotalLayers(Self) < MaxLayers
                    /\ _get_current_overlay(Self) # 0
                    /\ Commit(_duplicate_overlay_layer(Begin(Self)))

DuplicateImage == /\ TotalLayers(Self) < MaxLayers
                  /\ _get_current_image(Self) # 0
                  /\ Commit(_duplicate_image_layer(Begin(Self)))

RemoveText == /\ text_list.sel # <<>>
              /\ Commit(_remove_text_layer(Begin(Self)))

RemoveOverlay == /\ overlay_list.sel # <<>>
                 /\ Commit(_remove_overlay_layer(Begin(Self)))

RemoveImage == /\ image_list.sel # <<>>
               /\ Commit(_remove_image_layer(Begin(Self)))

OnTextSelect == \E idx \in 0 .. Len(text_list.items) - 1 :
                    Commit(_on_text_select(Begin(Self), idx))

OnOverlaySelect == \E idx \in 0 .. Len(overlay_list.items) - 1 :
                       Commit(_on_overlay_select(Begin(Self), idx))

OnImageSelect == \E idx \in 0 .. Len(image_list.items) - 1 :
                     Commit(_on_image_select(Begin(Self), idx))

\* the user picks a row of the layer tree
OnTreeSelect == \E i \in 1 .. Len(layer_tree.items) :
                    Commit(_on_tree_select(
                        [Begin(Self) EXCEPT !.layer_tree.sel = <<layer_tree.items[i]>>]))

ShiftLayer == \E direction \in {-1, 1} :
                  /\ layer_tree.sel # <<>>
                  /\ OrderIndex(Self, layer_tree.sel[1]) # -1
                  /\ clamp(OrderIndex(Self, layer_tree.sel[1]) + direction, 0,
                           Len(layer_order) - 1) # OrderIndex(Self, layer_tree.sel[1])
                  /\ Commit(_shift_layer(Begin(Self), direction))

\* the user answers yes to the confirmation
ResetLayers == /\ budget > 0
               /\ Commit(_reset_layers(Begin(Self)))

UpdateBackgroundMode == \E mode \in {"solid", "gradient", "image"} :
                            Commit(_update_background_mode(Begin(Self), mode))

LoadBackgroundImage == \E file_path \in Paths :
                           Commit(_load_background_image(Begin(Self), file_path))

ClearBackgroundImage == /\ budget > 0
                        /\ Commit(_clear_background_image(Begin(Self)))

\* another widget or application takes the exported selection
SelectionLost == /\ \E which \in ListNames : Self[which].sel # <<>>
                 /\ Commit([f \in DOMAIN Self |->
                              IF f \in ListNames THEN [Self[f] EXCEPT !.sel = <<>>]
                              ELSE Begin(Self)[f]])

\* the file system changes under the program
FontFileRemoved ==
    \E font_file \in FONTS_DIR :
        Commit([Begin(Self) EXCEPT !.FONTS_DIR = @ \ {font_file}])

FileChanged ==
    \E path \in Paths, status \in FileStatus :
        /\ disk[path] # status
        /\ Commit([Begin(Self) EXCEPT !.disk[path] = status])

\* the user opens a workspace file, first thing in the new window
LoadWorkspace == /\ budget = MaxRenderSteps
                 /\ \E data \in Workspaces : Commit(load_workspace(Begin(Self), data))

ChooseColors == {"#0080ff"}

ChooseColor == \E target \in {"background_solid", "overlay_color", "text_color"},
                  color \in ChooseColors :
                   /\ target = "overlay_color" => _get_current_overlay(Self) # 0
                   /\ target = "text_color" => _get_current_text(Self) # 0
                   /\ Commit(_choose_color(Begin(Self), target, color))

SetGradientDirection == \E direction \in {"horizontal", "vertical", "diagonal"} :
                            /\ direction # background.gradient.direction
                            /\ Commit(_set_gradient_direction(Begin(Self), direction))

UpdateOverlay == \E edit \in {<<"opacity", 100>>, <<"opacity", 50>>, <<"position_x", 25>>} :
                     /\ _get_current_overlay(Self) # 0
                     /\ Commit(_update_overlay(Begin(Self), edit[1], edit[2]))

ChangeTextFont == \E font_file \in font_options :
                      /\ _get_current_text(Self) # 0
                      /\ Commit(_update_current_text(Begin(Self), "font_file", font_file))

ToggleTextShadow == /\ _get_current_text(Self) # 0
                    /\ Commit(_toggle_text_shadow(Begin(Self)))

ChangeImagePath == \E path \in Paths :
                       /\ _get_current_image(Self) # 0
                       /\ Commit(_change_image_path(Begin(Self), path))

SetBackgroundNumeric ==
    \E edit \in {<<"brightness", 50>>, <<"contrast", 150>>, <<"blur_radius", 4>>} :
        Commit(_set_background_numeric(Begin(Self), edit[1], edit[2]))

UpdateCurrentText ==
    \E edit \in {<<"position_x", 20>>, <<"tracking", 40>>, <<"stroke_width", 0>>} :
        /\ _get_current_text(Self) # 0
        /\ Commit(_update_current_text(Begin(Self), edit[1], edit[2]))

UpdateShadowValue ==
    \E edit \in {<<"opacity", 0>>, <<"offset_x", -3>>} :
        /\ _get_current_text(Self) # 0
        /\ Commit(_update_shadow_value(Begin(Self), edit[1], edit[2]))

UpdateImage ==
    \E edit \in {<<"opacity", 50>>, <<"position_x", 20>>} :
        /\ _get_current_image(Self) # 0
        /\ Commit(_update_image(Begin(Self), edit[1], edit[2]))

ToggleImageShadow == /\ _get_current_image(Self) # 0
                     /\ Commit(_toggle_image_shadow(Begin(Self)))

ToggleImageFlip == \E field_name \in {"flip_horizontal", "flip_vertical"} :
                       /\ _get_current_image(Self) # 0
                       /\ Commit(_toggle_image_flip(Begin(Self), field_name))

Next ==
    \/ AddText \/ AddOverlay \/ AddImage
    \/ DuplicateText \/ DuplicateOverlay \/ DuplicateImage
    \/ RemoveText \/ RemoveOverlay \/ RemoveImage
    \/ OnTextSelect \/ OnOverlaySelect \/ OnImageSelect \/ OnTreeSelect
    \/ ShiftLayer \/ ResetLayers
    \/ ToggleTextShadow
    \/ SelectionLost

Spec == Init /\ [][Next]_vars

\* The scene edits and the file system, after an optional load.
NextRender ==
    \/ LoadWorkspace
    \/ UpdateBackgroundMode \/ LoadBackgroundImage \/ ClearBackgroundImage
    \/ ChooseColor \/ SetGradientDirection
    \/ UpdateOverlay \/ ChangeTextFont \/ ToggleTextShadow \/ ChangeImagePath
    \/ OnTextSelect \/ OnOverlaySelect \/ OnImageSelect \/ OnTreeSelect \/ ShiftLayer
    \/ FontFileRemoved \/ FileChanged

SpecRender == InitRender /\ [][NextRender]_vars

\* latest_image.save(file_path) when the dialog gave a path: the picture
\* written, or the string None when the dialog was cancelled
export_thumbnail(s, file_path) == IF file_path = "" THEN None ELSE s.latest_image

\* the last handler the window runs
ExportThumbnail ==
    \E file_path \in {"", "thumbnail.png"} :
        /\ budget > 0
        /\ budget' = 0
        /\ probe' = [op |-> "export_thumbnail", data |-> file_path,
                     result |-> export_thumbnail(Self, file_path)]
        /\ UNCHANGED <<background, text_layers, image_layers, overlay_layers,
                       current_text_id, current_image_id, current_overlay_id,
                       layer_order, text_list, overlay_list, image_list, layer_tree,
                       latest_image, preview_photo, font_options, FONTS_DIR, disk,
                       raised, render_entry, render_exit, heap>>

\* Every handler of the editor, the file system left alone.
NextEdit ==
    \/ LoadWorkspace
    \/ UpdateBackgroundMode \/ LoadBackgroundImage \/ ClearBackgroundImage
    \/ SetBackgroundNumeric \/ ChooseColor \/ SetGradientDirection
    \/ AddText \/ AddOverlay \/ AddImage
    \/ DuplicateText \/ DuplicateOverlay \/ DuplicateImage
    \/ RemoveText \/ RemoveOverlay \/ RemoveImage
    \/ OnTextSelect \/ OnOverlaySelect \/ OnImageSelect \/ OnTreeSelect
    \/ ShiftLayer \/ ResetLayers
    \/ UpdateCurrentText \/ ChangeTextFont \/ ToggleTextShadow \/ UpdateShadowValue
    \/ UpdateOverlay
    \/ ChangeImagePath \/ UpdateImage \/ ToggleImageShadow \/ ToggleImageFlip
    \/ ExportThumbnail

SpecEdit == InitRender /\ [][NextEdit]_vars

(***************************************************************************)
(* Word wrap and tracking of the text renderer.  A str is the sequence of  *)
(* its characters.  font.getbbox measures a string by its glyphs: in the   *)
(* model every character, the space too, is one unit wide.                 *)
(***************************************************************************)
\* " " * n
Spaces(n) == [i \in 1 .. n |-> " "]

\* sep.join(parts)
RECURSIVE join(_, _)
join(sep, parts) ==
    IF parts = <<>> THEN <<>>
    ELSE IF Len(parts) = 1 THEN parts[1]
    ELSE parts[1] \o sep \o join(sep, Tail(parts))

\* list(text): the characters, each a str of its own
list(text) == [i \in 1 .. Len(text) |-> <<text[i]>>]

\* Variant: one space for every 10 units of tracking.
_apply_trackingTenth(text, tracking) ==
    IF tracking = 0 THEN text
    ELSE join(Spaces(Max(0, tracking \div 10)), list(text))

_apply_tracking(text, tracking) ==
    IF tracking = 0 THEN text
    ELSE join(Spaces(Max(0, tracking \div 20)), list(text))

\* line.split(" ")
RECURSIVE split(_)
split(line) ==
    IF \A i \in 1 .. Len(line) : line[i] # " " THEN <<line>>
    ELSE <<SubSeq(line, 1, (CHOOSE i \in 1 .. Len(line) :
                               line[i] = " " /\ \A j \in 1 .. i - 1 : line[j] # " ") - 1)>>
         \o split(SubSeq(line, (CHOOSE i \in 1 .. Len(line) :
                                   line[i] = " " /\ \A j \in 1 .. i - 1 : line[j] # " ") + 1,
                         Len(line)))

\* text.strip()
RECURSIVE strip(_)
strip(text) ==
    IF text = <<>> THEN text
    ELSE IF Head(text) = " " THEN strip(Tail(text))
    ELSE IF text[Len(text)] = " " THEN strip(SubSeq(text, 1, Len(text) - 1))
    ELSE text

\* bbox[2] - bbox[0] of font.getbbox(text)
TextWidth(text) == Len(text)

\* int(self.base_width * layer.max_width)
max_width_pixels(max_width) == IntTrunc(base_width * max_width, 100)

\* Variant: a candidate that fills the limit exactly is refused.
WrapAttemptStrict(acc, word, attempt, limit, tracking) ==
    IF TextWidth(_apply_tracking(attempt, tracking)) < limit
    THEN [acc EXCEPT !.current_line = attempt]
    ELSE [rendered_lines |-> IF acc.current_line # <<>>
                             THEN Append(acc.rendered_lines, acc.current_line)
                             ELSE acc.rendered_lines,
          current_line |-> word]

\* the body of the loop over words, attempt being the candidate line
WrapAttempt(acc, word, attempt, limit, tracking) ==
    IF TextWidth(_apply_tracking(attempt, tracking)) <= limit
    THEN [acc EXCEPT !.current_line = attempt]
    ELSE [rendered_lines |-> IF acc.current_line # <<>>
                             THEN Append(acc.rendered_lines, acc.current_line)
                             ELSE acc.rendered_lines,
          current_line |-> word]

WrapWord(acc, word, limit, tracking) ==
    WrapAttempt(acc, word, strip(acc.current_line \o <<" ">> \o word), limit, tracking)

\* the loop over the first k words
RECURSIVE WrapWords(_, _, _, _)
WrapWords(words, k, limit, tracking) ==
    IF k = 0 THEN [rendered_lines |-> <<>>, current_line |-> <<>>]
    ELSE WrapWord(WrapWords(words, k - 1, limit, tracking), words[k], limit, tracking)

WrapFinish(acc) == Append(acc.rendered_lines, acc.current_line)

\* the lines one explicit line of the text adds to rendered_lines
WrapLine(line, limit, tracking) ==
    IF strip(line) = <<>> THEN <<<<>>>>
    ELSE WrapFinish(WrapWords(split(line), Len(split(line)), limit, tracking))

\* display_line of every rendered line
DisplayLines(rendered_lines, tracking) ==
    [i \in 1 .. Len(rendered_lines) |-> _apply_tracking(rendered_lines[i], tracking)]

(***************************************************************************)
(* Calls of the module's functions outside the handlers.  probe keeps the  *)
(* function called, its arguments and what it returned; the designer's     *)
(* attributes stay as they are.                                            *)
(***************************************************************************)
\* A value for every field, none of them the default of the field.
GradientOverride ==
    [start_color |-> "#0080ff", end_color |-> "#000000", direction |-> "vertical"]

BackgroundOverride ==
    [mode |-> "gradient", solid_color |-> "#0080ff", image_path |-> "photo.png",
     blur_radius |-> 4, brightness |-> 120, contrast |-> 80, saturation |-> 150]

ShadowOverride ==
    [enabled |-> FALSE, offset_x |-> -3, offset_y |-> 9, blur_radius |-> 0,
     color |-> "#0080ff", opacity |-> 30]

StrokeOverride == [width |-> 0, color |-> "#000000"]

TextOverride ==
    [id |-> "x1", label |-> "Teks", text |-> <<<<"Baru">>>>,
     font_file |-> "Poppins-Bold.ttf", font_size |-> 90, color |-> "#ffcf00",
     align |-> "left", position_x |-> 20, position_y |-> 80, max_width |-> 50,
     tracking |-> 40, rotation |-> 15]

ImageOverride ==
    [id |-> "x2", label |-> "Foto", image_path |-> "photo.png", scale |-> 50,
     rotation |-> 15, position_x |-> 20, position_y |-> 80, opacity |-> 30,
     flip_horizontal |-> TRUE, flip_vertical |-> TRUE, add_shadow |-> FALSE,
     shadow_blur |-> 0, shadow_offset_x |-> 5, shadow_offset_y |-> -5,
     shadow_opacity |-> 20]

OverlayOverride ==
    [id |-> "x3", label |-> "Pita", mode |-> "circle", color |-> "#0080ff",
     opacity |-> 30, position_x |-> 20, position_y |-> 80, width |-> 40,
     height |-> 50, blur_radius |-> 5, rotation |-> 15, rounded |-> 0]

\* the dicts that give at most MaxKeys of the keys of full
PartialMaps(full) ==
    {[k \in K |-> full[k]] : K \in {S \in SUBSET DOMAIN full : Cardinality(S) <= MaxKeys}}

\* payload with the nested dict nested under key, or without the key
WithKey(payload, key, nested) ==
    [k \in DOMAIN payload \cup {key} |-> IF k = key THEN nested ELSE payload[k]]

Nested(payloads, key, full) ==
    payloads \cup {WithKey(p, key, n) : p \in payloads, n \in PartialMaps(full)}

BackgroundPayloads == Nested(PartialMaps(BackgroundOverride), "gradient", GradientOverride)

TextPayloads ==
    Nested(Nested(PartialMaps(TextOverride), "shadow", ShadowOverride),
           "stroke", StrokeOverride)

ImagePayloads == PartialMaps(ImageOverride)

OverlayPayloads == PartialMaps(OverlayOverride)

\* probe records the call; the actions below make one call in a behaviour
Called(op, data, result) ==
    /\ probe' = [op |-> op, data |-> data, result |-> result]
    /\ UNCHANGED designer

CreateBackgroundSettings ==
    /\ probe = <<>>
    /\ \E data \in BackgroundPayloads :
        Called("create_background_settings", data, create_background_settings(data))

CreateTextLayer ==
    /\ probe = <<>>
    /\ \E data \in TextPayloads :
        Called("create_text_layer", data, create_text_layer(data, uuid4(Self, 1)))

CreateImageLayer ==
    /\ probe = <<>>
    /\ \E data \in ImagePayloads :
        Called("create_image_layer", data, create_image_layer(data, uuid4(Self, 1)))

CreateOverlayLayer ==
    /\ probe = <<>>
    /\ \E data \in OverlayPayloads :
        Called("create_overlay_layer", data, create_overlay_layer(data, uuid4(Self, 1)))

\* Layers handed to the renderers: opacities inside and outside [0, 1].
Opacities == {-50, 0, 50, 100, 150}

OverlayProbes ==
    {[OverlayLayer("x3") EXCEPT !.opacity = o, !.mode = m, !.color = c,
                                !.width = size[1], !.height = size[2]] :
        o \in Opacities, m \in {"rectangle", "circle", "banner"},
        c \in {"#ff3838", "#0080ff"}, size \in {<<80, 25>>, <<200, 200>>}}

TextProbes ==
    {[TextLayer("x1") EXCEPT !.shadow.enabled = e, !.shadow.opacity = o,
                             !.color = c, !.stroke.width = w, !.text = t] :
        e \in BOOLEAN, o \in Opacities, c \in {"#ffffff", "#ffcf00"}, w \in {0, 6},
        t \in {<<<<"Judul", "Thumbnail">>>>, <<<<"A">>, <<"">>, <<"B">>>>, <<<<"">>>>}}

ImageProbes ==
    {[ImageLayer("x2") EXCEPT !.image_path = path, !.add_shadow = e,
                              !.shadow_opacity = o, !.opacity = a] :
        path \in Paths, e \in BOOLEAN, o \in Opacities, a \in {50, 100}}

\* base_image before an entry is composited: one colour, opaque or not, or a gradient
Backdrops ==
    {ImageNew(rgba) : rgba \in {<<17, 17, 17, 255>>, <<255, 255, 255, 255>>,
                                <<0, 128, 255, 128>>, <<0, 0, 0, 0>>}}
    \cup {GradientLayer(<<255, 56, 56, 255>>, <<255, 207, 0, 255>>, "diagonal")}

RenderOverlayLayer ==
    /\ probe = <<>>
    /\ \E layer \in OverlayProbes :
        Called("_render_overlay_layer", layer, _render_overlay_layer(Self, layer))

RenderTextLayer ==
    /\ probe = <<>>
    /\ \E layer \in TextProbes :
        Called("_render_text_layer", layer, _render_text_layer(Self, layer))

RenderImageLayer ==
    /\ probe = <<>>
    /\ \E layer \in ImageProbes :
        Called("_render_image_layer", layer, _render_image_layer(Self, layer))

\* one turn of the loop of render_thumbnail on an overlay entry
PaintOverlay ==
    /\ probe = <<>>
    /\ \E base_image \in Backdrops, layer \in OverlayProbes :
        Called("alpha_composite", [base_image |-> base_image, layer |-> layer],
               Paint([raised |-> FALSE, image |-> base_image],
                     Raster(_render_overlay_layer(Self, layer))).image)

\* The gradient of every pair of colours, with and without a correction.
RenderGradientBackground ==
    /\ probe = <<>>
    /\ \E start_color \in Colors, end_color \in Colors,
       direction \in {"horizontal", "vertical", "diagonal"}, brightness \in {100, 150} :
        Called("_render_gradient_background",
               [start_color |-> start_color, end_color |-> end_color,
                direction |-> direction, brightness |-> brightness],
               _render_gradient_background(
                   [Self EXCEPT !.background.gradient =
                                    [start_color |-> start_color, end_color |-> end_color,
                                     direction |-> direction],
                                !.background.brightness = brightness]))

\* The lines of up to MaxChars characters, the widths and the trackings probed.
RECURSIVE Strs(_)
Strs(n) ==
    IF n = 0 THEN {<<>>}
    ELSE Strs(n - 1) \cup {Append(t, c) : t \in Strs(n - 1), c \in {"a", "b", " "}}

Trackings == {-30, 0, 10, 20, 45}

WrapText ==
    /\ probe = <<>>
    /\ \E line \in Strs(MaxChars), max_width \in {25, 50, 75, 100}, tracking \in Trackings :
        Called("wrap", [line |-> line, max_width |-> max_width, tracking |-> tracking],
               [rendered_lines |-> WrapLine(line, max_width_pixels(max_width), tracking),
                display_lines |->
                    DisplayLines(WrapLine(line, max_width_pixels(max_width), tracking),
                                 tracking)])

ApplyTracking ==
    /\ probe = <<>>
    /\ \E text \in Strs(MaxChars), tracking \in Trackings :
        Called("_apply_tracking", [text |-> text, tracking |-> tracking],
               _apply_tracking(text, tracking))

\* The corrections of two gradients with every factor below, at and above 1.0.
Factors == {50, 100, 150}

ApplyBackgroundCorrections ==
    /\ probe = <<>>
    /\ \E end_color \in {"#ffcf00", "#0080ff"},
          brightness \in Factors, contrast \in Factors, saturation \in Factors :
        LET img == GradientLayer(hex_to_rgba("#ff3838", 100), hex_to_rgba(end_color, 100),
                                 "horizontal")
        IN  Called("_apply_background_corrections",
                   [img |-> img, brightness |-> brightness, contrast |-> contrast,
                    saturation |-> saturation],
                   _apply_background_corrections(
                       [Self EXCEPT !.background.brightness = brightness,
                                    !.background.contrast = contrast,
                                    !.background.saturation = saturation], img))

\* The backgrounds of the solid and the gradient mode with every field at
\* its default or at another value, rendered under the default layers and
\* under no layer.
BackgroundProbes ==
    {[mode |-> mode, solid_color |-> solid_color,
      gradient |-> [GradientSettings EXCEPT !.direction = direction],
      image_path |-> image_path, blur_radius |-> blur_radius, brightness |-> brightness,
      contrast |-> contrast, saturation |-> saturation] :
        mode \in {"solid", "gradient"}, solid_color \in {"#202020", "#0080ff"},
        direction \in {"horizontal", "vertical"}, image_path \in {None, "photo.png"},
        blur_radius \in {0, 4}, brightness \in {100, 50}, contrast \in {100, 150},
        saturation \in {100, 50}}

RenderThumbnail ==
    /\ probe = <<>>
    /\ \E settings \in BackgroundProbes, order \in {<<>>, layer_order} :
        Called("render_thumbnail", [background |-> settings, layer_order |-> order],
               render_thumbnail([Self EXCEPT !.background = settings,
                                             !.layer_order = order]).latest_image)

NextPure ==
    \/ CreateBackgroundSettings \/ CreateTextLayer
    \/ CreateImageLayer \/ CreateOverlayLayer
    \/ RenderOverlayLayer \/ RenderTextLayer \/ RenderImageLayer \/ PaintOverlay
    \/ RenderGradientBackground \/ ApplyBackgroundCorrections \/ RenderThumbnail
    \/ WrapText \/ ApplyTracking

SpecPure == Init /\ [][NextPure]_vars

(***************************************************************************)
(* Properties.                                                             *)
(***************************************************************************)
\* the last step was a handler whose render returned
Rendered == render_exit # <<>> /\ raised = None

\* the raster of the k-th entry of layer_order in the current state
RasterOf(k) == EntryRaster(Self, layer_order[k])

OpaqueAt(k, p) == RasterOf(k).kind = "raster" /\ RasterOf(k).image[p][4] = 255

PaintsAt(k, p) == RasterOf(k).kind = "raster" /\ RasterOf(k).image[p][4] > 0

Uncovered(k, p) == \A later \in k + 1 .. Len(layer_order) : ~PaintsAt(later, p)

\* C1: the canvas a render produced shows the background where no layer
\* paints, and for two entries A before B of layer_order that are both fully
\* opaque at a pixel (with no later entry painting it) the pixel has the
\* colour of B, whatever the order was before a move.
PaintOrder ==
    Rendered =>
        \A p \in Pixels :
            /\ Uncovered(0, p) => latest_image[p] = RenderBase(Self)[p]
            /\ \A a, b \in 1 .. Len(layer_order) :
                   (a < b /\ OpaqueAt(a, p) /\ OpaqueAt(b, p) /\ Uncovered(b, p))
                       => latest_image[p] = RasterOf(b).image[p]

\* A tree item was moved below another entry (it is still selected) and the
\* pixel both cover, in different colours, shows the entry now on top.
PaintOrderWitness ==
    /\ Rendered
    /\ layer_tree.sel # <<>>
    /\ \E a, b \in 1 .. Len(layer_order) : \E p \in Pixels :
           /\ a < b /\ layer_tree.sel[1] = layer_order[a]
           /\ OpaqueAt(a, p) /\ OpaqueAt(b, p)
           /\ RasterOf(a).image[p] # RasterOf(b).image[p]
           /\ latest_image[p] = RasterOf(b).image[p]

\* an entry render_thumbnail cannot resolve
Unresolvable(s, entry) ==
    \/ entry[1] \notin {"text", "image", "overlay"}
    \/ entry[1] = "text" /\ FindIndex(s.text_layers, entry[2]) = 0
    \/ entry[1] = "image" /\ FindIndex(s.image_layers, entry[2]) = 0
    \/ entry[1] = "overlay" /\ FindIndex(s.overlay_layers, entry[2]) = 0

WithoutUnresolvable(s) ==
    [s EXCEPT !.layer_order = SelectSeq(@, LAMBDA entry : ~Unresolvable(s, entry))]

Canvas(s) == RenderPrefix(s, Len(s.layer_order))

\* C2: an entry of layer_order that cannot be resolved leaves the accumulator
\* and the error state of the loop as they were before it, and the canvas is
\* the one the resolvable entries alone give, in their order.
UnresolvableSkipped ==
    /\ \A k \in 1 .. Len(layer_order) :
           Unresolvable(Self, layer_order[k]) => RenderPrefix(Self, k) = RenderPrefix(Self, k - 1)
    /\ Canvas(Self) = Canvas(WithoutUnresolvable(Self))
    /\ Rendered => latest_image = Canvas(WithoutUnresolvable(Self)).image

UnresolvableSkippedWitness ==
    /\ Rendered
    /\ \E k, j \in 1 .. Len(layer_order) : \E p \in Pixels :
           /\ k < j /\ Unresolvable(Self, layer_order[k])
           /\ PaintsAt(j, p)
           /\ latest_image[p] # RenderBase(Self)[p]

Resolves(s, entry) == ~Unresolvable(s, entry)

\* C3: after any sequence of add, duplicate, remove, shift and reset every
\* entry of layer_order names a layer of the collection of its type.
NoStaleEntry == \A k \in 1 .. Len(layer_order) : Resolves(Self, layer_order[k])

\* Fewer layers than the three defaults: a remove has run.
NoStaleEntryWitness ==
    /\ TotalLayers(Self) = 2
    /\ Len(layer_order) = 2
    /\ render_exit # <<>>

\* C4: a render leaves the scene as it found it, when it returns and when it
\* raises: background, the three collections, layer_order and the current
\* ids are the same at its call and at its end.
SceneKept ==
    /\ render_entry = render_exit
    /\ Scene(render_thumbnail(Begin(Self))) = Scene(Self)

SceneKeptWitness ==
    /\ render_entry # <<>>
    /\ raised = None
    /\ render_entry[1].background.mode = "image"
    /\ latest_image # Transparent

OtherCanvases == {ImageNewColor("#ffffff")}

SameOutcome(r1, r2) ==
    /\ r1.raised = r2.raised
    /\ r1.raised = None => /\ r1.latest_image = r2.latest_image
                           /\ r1.preview_photo = r2.preview_photo

\* C5: the canvas of a render does not depend on the canvas a previous render
\* left in latest_image, a second render of the unchanged scene gives the
\* canvas of the first, and it is the canvas the handler has just stored.
RenderIdempotent ==
    /\ \A img \in OtherCanvases :
           SameOutcome(render_thumbnail(Begin(Self)),
                       render_thumbnail([Begin(Self) EXCEPT !.latest_image = img]))
    /\ SameOutcome(render_thumbnail(Begin(Self)),
                   render_thumbnail(render_thumbnail(Begin(Self))))
    /\ Rendered => render_thumbnail(Begin(Self)).latest_image = latest_image

\* A render over a canvas with translucent layers on it
RenderIdempotentWitness ==
    /\ Rendered
    /\ \E k \in 1 .. Len(layer_order) : \E p \in Pixels :
           /\ PaintsAt(k, p) /\ ~OpaqueAt(k, p)
           /\ latest_image[p] # RenderBase(Self)[p]
    /\ background.mode = "gradient"

\* some text layer reached through the order names a font file that is absent
MissingFontIn(texts, order, fonts) ==
    \E k \in 1 .. Len(order) :
        /\ order[k][1] = "text"
        /\ FindIndex(texts, order[k][2]) # 0
        /\ texts[FindIndex(texts, order[k][2])].font_file \notin fonts

\* C6: a handler that renders ends with FileNotFoundError exactly when a text
\* layer reached through layer_order names a font file that is not there,
\* and then latest_image and the preview are the ones from before the call.
FontAbort ==
    [][render_exit' # <<>> =>
           /\ (raised' = "FileNotFoundError")
                  <=> MissingFontIn(text_layers', layer_order', FONTS_DIR')
           /\ raised' = "FileNotFoundError" =>
                  /\ latest_image' = latest_image
                  /\ preview_photo' = preview_photo]_vars

\* The render raised, and what it had composited so far is not the canvas kept.
FontAbortWitness ==
    /\ render_exit # <<>>
    /\ raised = "FileNotFoundError"
    /\ Canvas(Self).raised
    /\ Canvas(Self).image # latest_image

BackgroundImageMissing ==
    /\ background.mode = "image"
    /\ \/ background.image_path = None
       \/ ~PathExists(Self, background.image_path)
       \/ ~PathReadable(Self, background.image_path)

\* C7: in mode "image" with a path that is unset, absent or unreadable the
\* background is the solid colour on every pixel, and the render goes on: the
\* canvas is the one the layers give over the solid background.
ImageBackgroundFallback ==
    BackgroundImageMissing =>
        /\ _render_image_background(Self) = ImageNewColor(background.solid_color)
        /\ Rendered =>
               latest_image = Canvas([Self EXCEPT !.background.mode = "solid"]).image

ImageBackgroundFallbackWitness ==
    /\ BackgroundImageMissing
    /\ background.image_path # None
    /\ disk[background.image_path] = "unreadable"
    /\ Rendered
    /\ latest_image # ImageNewColor(background.solid_color)

\* the k-th entry names an image layer whose source is unset, absent or unreadable
SourceMissing(s, k) ==
    /\ s.layer_order[k][1] = "image"
    /\ FindIndex(s.image_layers, s.layer_order[k][2]) # 0
    /\ \/ s.image_layers[FindIndex(s.image_layers, s.layer_order[k][2])].image_path = None
       \/ ~PathReadable(s, s.image_layers[FindIndex(s.image_layers,
                                                    s.layer_order[k][2])].image_path)

WithoutEntryAt(s, k) == [s EXCEPT !.layer_order = RemoveAt(@, k)]

\* C8: an image layer whose source is unset, absent or unreadable leaves the
\* accumulator and the error state of the loop as they were before its entry,
\* and the canvas is the one the scene without that entry gives.
MissingSourceTransparent ==
    \A k \in 1 .. Len(layer_order) :
        SourceMissing(Self, k) =>
            /\ RenderPrefix(Self, k) = RenderPrefix(Self, k - 1)
            /\ Canvas(Self) = Canvas(WithoutEntryAt(Self, k))
            /\ Rendered => latest_image = Canvas(WithoutEntryAt(Self, k)).image

MissingSourceTransparentWitness ==
    /\ Rendered
    /\ \E k, j \in 1 .. Len(layer_order) : \E p \in Pixels :
           /\ k < j /\ SourceMissing(Self, k)
           /\ image_layers[FindIndex(image_layers, layer_order[k][2])].image_path # None
           /\ PaintsAt(j, p)
           /\ latest_image[p] # RenderBase(Self)[p]

UniqueIn(layers) ==
    \A i, j \in 1 .. Len(layers) : i # j => layers[i].id # layers[j].id

\* C9: after any sequence of add, duplicate, remove, shift and reset no two
\* layers of one collection have the same id; in particular a duplicate and
\* its source have different ids.
UniqueIds == UniqueIn(text_layers) /\ UniqueIn(image_layers) /\ UniqueIn(overlay_layers)

UniqueIdsWitness ==
    \E i, j \in 1 .. Len(overlay_layers) :
        /\ overlay_layers[j].label = overlay_layers[i].label \o " (copy)"
        /\ overlay_layers[j].id # overlay_layers[i].id

Last(seq) == seq[Len(seq)]

CopiedExcept(clone, source, fields) ==
    \A f \in DOMAIN source \ fields : clone[f] = source[f]

\* C10 as amended: the layer a duplicate adds has the fields of the source
\* except id and label; its id is new and its label is the source's label
\* followed by " (copy)".
DuplicateCopies ==
    [][/\ DuplicateText =>
              /\ CopiedExcept(Last(text_layers'), text_layers[_get_current_text(Self)],
                              {"id", "label"})
              /\ Last(text_layers').label =
                     text_layers[_get_current_text(Self)].label \o " (copy)"
       /\ DuplicateOverlay =>
              /\ CopiedExcept(Last(overlay_layers'),
                              overlay_layers[_get_current_overlay(Self)], {"id", "label"})
              /\ Last(overlay_layers').label =
                     overlay_layers[_get_current_overlay(Self)].label \o " (copy)"
       /\ DuplicateImage =>
              /\ CopiedExcept(Last(image_layers'), image_layers[_get_current_image(Self)],
                              {"id", "label"})
              /\ Last(image_layers').label =
                     image_layers[_get_current_image(Self)].label \o " (copy)"]_vars

\* A copy of a text layer that is not as the defaults are
DuplicateCopiesWitness ==
    \E i, j \in 1 .. Len(text_layers) :
        /\ text_layers[j].label = text_layers[i].label \o " (copy)"
        /\ text_layers[j].id # text_layers[i].id
        /\ CopiedExcept(text_layers[j], text_layers[i], {"id", "label"})
        /\ text_layers[j].font_size # TextLayer(None).font_size

\* C10 as stated: every field of the clone other than id is the source's.
DuplicateCopiesAllButId ==
    [][/\ DuplicateText =>
              CopiedExcept(Last(text_layers'), text_layers[_get_current_text(Self)], {"id"})
       /\ DuplicateOverlay =>
              CopiedExcept(Last(overlay_layers'),
                           overlay_layers[_get_current_overlay(Self)], {"id"})
       /\ DuplicateImage =>
              CopiedExcept(Last(image_layers'), image_layers[_get_current_image(Self)],
                           {"id"})]_vars

\* the value the factories give field f: the override when data has the key
Merged(defaults, data, f) == IF f \in DOMAIN data THEN data[f] ELSE defaults[f]

\* the nested record under key: the defaults overridden by the partial map
MergedNested(defaults, data, key) ==
    [g \in DOMAIN defaults |->
        IF key \in DOMAIN data THEN Merged(defaults, data[key], g) ELSE defaults[g]]

MergedRecord(defaults, data, nested) ==
    [f \in DOMAIN defaults |->
        IF f \in DOMAIN nested THEN MergedNested(nested[f], data, f)
        ELSE Merged(defaults, data, f)]

FactoryDefaults(op) ==
    CASE op = "create_background_settings" -> BackgroundSettings
      [] op = "create_text_layer" -> TextLayer(uuid4(Self, 1))
      [] op = "create_image_layer" -> ImageLayer(uuid4(Self, 1))
      [] op = "create_overlay_layer" -> OverlayLayer(uuid4(Self, 1))

FactoryNested(op) ==
    CASE op = "create_background_settings" -> [gradient |-> GradientSettings]
      [] op = "create_text_layer" -> [shadow |-> ShadowSettings, stroke |-> StrokeSettings]
      [] OTHER -> <<>>

Factories ==
    {"create_background_settings", "create_text_layer", "create_image_layer",
     "create_overlay_layer"}

\* C11: a factory returns, field by field, the override where the data has
\* the key and the dataclass default elsewhere, the nested shadow, stroke and
\* gradient records merged the same way from a partial map or defaulted when
\* omitted; with no data the result is the all-default record.
FactoryMerge ==
    (probe # <<>> /\ probe.op \in Factories) =>
        /\ probe.result =
              MergedRecord(FactoryDefaults(probe.op), probe.data, FactoryNested(probe.op))
        /\ DOMAIN probe.data = {} => probe.result = FactoryDefaults(probe.op)

FactoryMergeWitness ==
    /\ probe # <<>>
    /\ probe.op = "create_text_layer"
    /\ DOMAIN probe.data = {"tracking", "shadow"}
    /\ DOMAIN probe.data.shadow = {"opacity"}
    /\ probe.result.tracking = 40
    /\ probe.result.shadow.opacity = 30
    /\ probe.result.shadow.color = "#000000"
    /\ probe.result.stroke = StrokeSettings
    /\ probe.result.font_size = 150

\* what the engine paints: the scene without the selections
SceneData(s) ==
    [background |-> s.background, text_layers |-> s.text_layers,
     image_layers |-> s.image_layers, overlay_layers |-> s.overlay_layers,
     layer_order |-> s.layer_order]

\* latest_image is the render of the scene as it is now
Fresh(s) == ~Canvas(s).raised /\ s.latest_image = Canvas(s).image

OverlayRect(layer) ==
    <<IntTrunc(base_width * layer.position_x, 100) - IntTrunc(base_width * layer.width, 100) \div 2,
      IntTrunc(base_height * layer.position_y, 100) - IntTrunc(base_height * layer.height, 100) \div 2,
      IntTrunc(base_width * layer.position_x, 100) + IntTrunc(base_width * layer.width, 100) \div 2,
      IntTrunc(base_height * layer.position_y, 100) + IntTrunc(base_height * layer.height, 100) \div 2>>

\* the pixels the shape of the layer covers
Covered(layer) ==
    {p \in Pixels : Drawn(p, layer.mode, OverlayRect(layer),
                          IntTrunc(base_width * layer.width, 100),
                          IntTrunc(base_height * layer.height, 100))}

\* int(clamp(opacity, 0, 1) * 255) when clamped, else int(opacity * 255);
\* opacity in hundredths
AlphaOf(opacity, clamped) ==
    IF clamped THEN IntTrunc(clamp(opacity, 0, 100) * 255, 100)
    ELSE IntTrunc(opacity * 255, 100)

\* the alphas a renderer called with the probed layer gives its shape or shadow
AlphaFrom(clamped) ==
    /\ (probe # <<>> /\ probe.op = "_render_overlay_layer") =>
           \A p \in Covered(probe.data) : probe.result[p][4] = AlphaOf(probe.data.opacity, clamped)
    /\ (probe # <<>> /\ probe.op = "_render_text_layer"
          /\ probe.data.shadow.enabled /\ probe.data.shadow.opacity > 0
          /\ HasGlyphs(probe.data.text)) =>
           probe.result.image[GlyphPixel(probe.data)][4] = AlphaOf(probe.data.shadow.opacity, clamped)
    /\ (probe # <<>> /\ probe.op = "_render_image_layer"
          /\ probe.data.add_shadow /\ probe.data.shadow_opacity > 0) =>
           ShadowUnder(<<0, 0, 0, 255>>, probe.data)[4] = AlphaOf(probe.data.shadow_opacity, clamped)

GradientProbe(direction) ==
    /\ probe # <<>>
    /\ probe.op = "_render_gradient_background"
    /\ probe.data.direction = direction
    /\ probe.data.brightness = 100

StartOf(data) == hex_to_rgba(data.start_color, 100)
EndOf(data) == hex_to_rgba(data.end_color, 100)

Between(v, a, b) == Min(a, b) <= v /\ v <= Max(a, b)

\* C15: with identity corrections the horizontal gradient has start_color in
\* every pixel of column 0 and end_color in every pixel of column W-1, the
\* vertical gradient has start_color in row 0 and end_color in row H-1, and
\* every channel of every pixel lies between the two endpoint values.
GradientEnds ==
    /\ GradientProbe("horizontal") =>
           \A y \in 0 .. base_height - 1 :
               /\ probe.result[<<0, y>>] = StartOf(probe.data)
               /\ probe.result[<<base_width - 1, y>>] = EndOf(probe.data)
    /\ GradientProbe("vertical") =>
           \A x \in 0 .. base_width - 1 :
               /\ probe.result[<<x, 0>>] = StartOf(probe.data)
               /\ probe.result[<<x, base_height - 1>>] = EndOf(probe.data)
    /\ (GradientProbe("horizontal") \/ GradientProbe("vertical")) =>
           \A p \in Pixels, i \in 1 .. 4 :
               Between(probe.result[p][i], StartOf(probe.data)[i], EndOf(probe.data)[i])

\* red to blue, left to right: the ends are exact and a middle column is a mix
GradientEndsWitness ==
    /\ GradientProbe("horizontal")
    /\ probe.data.start_color = "#ff3838"
    /\ probe.data.end_color = "#0080ff"
    /\ probe.result[<<0, 0>>] = <<255, 56, 56, 255>>
    /\ probe.result[<<base_width - 1, base_height - 1>>] = <<0, 128, 255, 255>>
    /\ probe.result[<<1, 0>>] \notin {<<255, 56, 56, 255>>, <<0, 128, 255, 255>>}

FarCorner == <<base_width - 1, base_height - 1>>

\* C20 as stated: in the diagonal gradient the far-corner pixel never equals
\* end_color when start_color differs from end_color.
FarCornerNeverEnd ==
    (GradientProbe("diagonal") /\ StartOf(probe.data) # EndOf(probe.data)) =>
        probe.result[FarCorner] # EndOf(probe.data)

\* C20: in the diagonal gradient, of ratio (x+y)/(W+H), the far-corner pixel
\* equals end_color exactly when no channel of end_color is above that of
\* start_color and every channel is less than (W+H)/2 below it (int() then
\* truncates the remainder 2(start-end)/(W+H) away); it differs from
\* end_color whenever a channel of end_color is above that of start_color.
FarCornerShort ==
    GradientProbe("diagonal") =>
        (probe.result[FarCorner] = EndOf(probe.data)
            <=> \A i \in 1 .. 4 :
                    /\ EndOf(probe.data)[i] <= StartOf(probe.data)[i]
                    /\ 2 * (StartOf(probe.data)[i] - EndOf(probe.data)[i])
                           < base_width + base_height)

\* #111111 to #101010: the far corner is #101010
FarCornerShortWitness ==
    /\ GradientProbe("diagonal")
    /\ probe.data.start_color = "#111111"
    /\ probe.data.end_color = "#101010"
    /\ probe.result[FarCorner] = <<16, 16, 16, 255>>

WrapProbe == probe # <<>> /\ probe.op = "wrap"

\* the words of a line: what lies between its spaces
WordsOf(line) == SelectSeq(split(line), LAMBDA w : w # <<>>)

\* the words of the first k lines, in order
RECURSIVE WordsUpTo(_, _)
WordsUpTo(lines, k) ==
    IF k = 0 THEN <<>> ELSE WordsUpTo(lines, k - 1) \o WordsOf(lines[k])

Tracked(text, tracking) == _apply_tracking(text, tracking)

\* C16: the wrap of one explicit line keeps its words whole, all of them,
\* once each and in order, single-spaced; a word starts a new line only when
\* the candidate line with it, tracking applied, is wider than
\* int(max_width*W); so every line of two or more words fits the limit and a
\* word wider than the limit is alone on its line.
WrapGreedy ==
    WrapProbe =>
        /\ WordsUpTo(probe.result.rendered_lines, Len(probe.result.rendered_lines))
               = WordsOf(probe.data.line)
        /\ \A i \in 1 .. Len(probe.result.rendered_lines) :
               /\ probe.result.rendered_lines[i]
                      = join(<<" ">>, WordsOf(probe.result.rendered_lines[i]))
               /\ Len(WordsOf(probe.result.rendered_lines[i])) >= 2 =>
                      TextWidth(probe.result.display_lines[i])
                          <= max_width_pixels(probe.data.max_width)
               /\ \A w \in {WordsOf(probe.result.rendered_lines[i])[j] :
                               j \in 1 .. Len(WordsOf(probe.result.rendered_lines[i]))} :
                      TextWidth(Tracked(w, probe.data.tracking))
                              > max_width_pixels(probe.data.max_width) =>
                          probe.result.rendered_lines[i] = w
        /\ \A i \in 1 .. Len(probe.result.rendered_lines) - 1 :
               (probe.result.rendered_lines[i] # <<>>
                   /\ probe.result.rendered_lines[i + 1] # <<>>) =>
                   TextWidth(Tracked(probe.result.rendered_lines[i] \o <<" ">>
                                         \o WordsOf(probe.result.rendered_lines[i + 1])[1],
                                     probe.data.tracking))
                       > max_width_pixels(probe.data.max_width)

\* "aa bb" with room for two characters: "aa", then "bb"
WrapGreedyWitness ==
    /\ WrapProbe
    /\ probe.data.line = <<"a", "a", " ", "b", "b">>
    /\ probe.data.tracking = 0
    /\ max_width_pixels(probe.data.max_width) = 2
    /\ probe.result.rendered_lines = << <<"a", "a">>, <<"b", "b">> >>

TrackingProbe == probe # <<>> /\ probe.op = "_apply_tracking"

\* result is text with k spaces between every two adjacent characters
Spaced(text, result, k) ==
    /\ Len(result) = IF text = <<>> THEN 0 ELSE Len(text) + (Len(text) - 1) * k
    /\ \A i \in 1 .. Len(text) : result[(i - 1) * (k + 1) + 1] = text[i]
    /\ \A j \in 1 .. Len(result) : (j - 1) % (k + 1) # 0 => result[j] = " "

\* C19 as stated: for every tracking other than 0 the result has
\* n + (n-1)*floor(tracking/20) characters, floor(tracking/20) spaces between
\* every two adjacent characters; for tracking 0 the line is unchanged.
TrackingFloor ==
    TrackingProbe =>
        IF probe.data.tracking = 0 THEN probe.result = probe.data.text
        ELSE Len(probe.result) = Len(probe.data.text)
                 + (Len(probe.data.text) - 1) * (probe.data.tracking \div 20)

\* C19: for every tracking other than 0, _apply_tracking puts exactly
\* max(0, floor(tracking/20)) spaces between every two adjacent characters
\* (n + (n-1)*max(0, floor(tracking/20)) characters for a line of n >= 1
\* characters, none for the empty line), so a negative tracking adds none;
\* for tracking 0 the line is unchanged; the line drawn is the tracked line
\* that was measured when the wrap accepted it.
TrackingSpaces ==
    /\ TrackingProbe =>
           IF probe.data.tracking = 0 THEN probe.result = probe.data.text
           ELSE Spaced(probe.data.text, probe.result,
                       Max(0, probe.data.tracking \div 20))
    /\ WrapProbe =>
           \A i \in 1 .. Len(probe.result.rendered_lines) :
               /\ Spaced(probe.result.rendered_lines[i], probe.result.display_lines[i],
                         IF probe.data.tracking = 0 THEN 0
                         ELSE Max(0, probe.data.tracking \div 20))
               /\ Len(WordsOf(probe.result.rendered_lines[i])) >= 2 =>
                      TextWidth(probe.result.display_lines[i])
                          <= max_width_pixels(probe.data.max_width)

\* "ab b" at tracking 45: two spaces after every character
TrackingSpacesWitness ==
    /\ TrackingProbe
    /\ probe.data.tracking = 45
    /\ probe.data.text = <<"a", "b", " ", "b">>
    /\ probe.result = <<"a", " ", " ", "b", " ", " ", " ", " ", " ", "b">>

\* a text layer rendered with its shadow on, at least one line not blank
ShadowedTextProbe ==
    /\ probe # <<>>
    /\ probe.op = "_render_text_layer"
    /\ probe.data.shadow.enabled
    /\ probe.data.shadow.opacity > 0
    /\ HasGlyphs(probe.data.text)

\* the glyphs over the shadow: the fill colour where the text is drawn
GlyphsOverShadow(layer) ==
    AlphaCompositePixel(hex_to_rgba(layer.shadow.color, layer.shadow.opacity),
                        hex_to_rgba(layer.color, 100))

\* C18: with the shadow enabled and its opacity above 0 the image returned
\* by _render_text_layer holds the glyphs of every non-blank line over their
\* shadow: where the text is drawn the pixel is the fill over the shadow.
GlyphsKept ==
    ShadowedTextProbe =>
        probe.result.image[GlyphPixel(probe.data)] = GlyphsOverShadow(probe.data)

\* white text with a black shadow of opacity 0.5: the returned layer holds
\* the shadow alone
GlyphsLost ==
    /\ ShadowedTextProbe
    /\ probe.data.color = "#ffffff"
    /\ probe.data.shadow.opacity = 50
    /\ probe.result.kind = "raster"
    /\ probe.result.image[GlyphPixel(probe.data)] = <<0, 0, 0, 127>>

(***************************************************************************)
(* The workspace file.  json.dump writes a dict as an object, a list or a  *)
(* tuple as an array, a str as a string, an int or a float as a number,    *)
(* True and False as true and false and None as null; json.load reads an   *)
(* object as a dict, an array as a list and null as None.  The type of a   *)
(* value is the annotation of its field.                                   *)
(***************************************************************************)
JsonNull == [type |-> "null"]

JsonString(v) == [type |-> "string", value |-> v]

JsonNumber(v) == [type |-> "number", value |-> v]

JsonBool(v) == [type |-> IF v THEN "true" ELSE "false"]

JsonArray(items) == [type |-> "array", items |-> items]

JsonObject(members) == [type |-> "object", members |-> members]

\* the fields annotated str, Optional[str], bool and a nested dataclass; the
\* others are int or float
StrFields ==
    {"id", "label", "mode", "color", "solid_color", "start_color", "end_color",
     "direction", "text", "font_file", "align"}

OptionalStrFields == {"image_path"}

BoolFields == {"enabled", "flip_horizontal", "flip_vertical", "add_shadow"}

DictFields == {"gradient", "shadow", "stroke"}

RECURSIVE json_dump_field(_, _)
json_dump_field(name, v) ==
    IF name \in DictFields
    THEN JsonObject([k \in DOMAIN v |-> json_dump_field(k, v[k])])
    ELSE IF name \in BoolFields THEN JsonBool(v)
    ELSE IF name \in OptionalStrFields THEN (IF v = None THEN JsonNull ELSE JsonString(v))
    ELSE IF name \in StrFields THEN JsonString(v)
    ELSE JsonNumber(v)

json_dump_dict(d) == JsonObject([k \in DOMAIN d |-> json_dump_field(k, d[k])])

json_dump_dicts(ds) == JsonArray([i \in 1 .. Len(ds) |-> json_dump_dict(ds[i])])

\* a (type, id) tuple is written as an array of two strings
json_dump_order(order) ==
    JsonArray([i \in 1 .. Len(order) |->
                  JsonArray([j \in 1 .. Len(order[i]) |-> JsonString(order[i][j])])])

json_dump(data) ==
    JsonObject([k \in DOMAIN data |->
                   IF k = "background" THEN json_dump_dict(data[k])
                   ELSE IF k = "layer_order" THEN json_dump_order(data[k])
                   ELSE json_dump_dicts(data[k])])

RECURSIVE json_load(_)
json_load(j) ==
    CASE j.type = "object" -> [k \in DOMAIN j.members |-> json_load(j.members[k])]
      [] j.type = "array" -> [i \in 1 .. Len(j.items) |-> json_load(j.items[i])]
      [] j.type \in {"string", "number"} -> j.value
      [] j.type = "true" -> TRUE
      [] j.type = "false" -> FALSE
      [] j.type = "null" -> None

\* Variant: the order list is left out of the file.
WorkspaceDataUnordered(s) ==
    [background |-> asdict(s.background),
     text_layers |-> [i \in 1 .. Len(s.text_layers) |-> asdict(s.text_layers[i])],
     image_layers |-> [i \in 1 .. Len(s.image_layers) |-> asdict(s.image_layers[i])],
     overlay_layers |-> [i \in 1 .. Len(s.overlay_layers) |-> asdict(s.overlay_layers[i])]]

\* the dict save_workspace builds
WorkspaceData(s) ==
    [background |-> asdict(s.background),
     text_layers |-> [i \in 1 .. Len(s.text_layers) |-> asdict(s.text_layers[i])],
     image_layers |-> [i \in 1 .. Len(s.image_layers) |-> asdict(s.image_layers[i])],
     overlay_layers |-> [i \in 1 .. Len(s.overlay_layers) |-> asdict(s.overlay_layers[i])],
     layer_order |-> s.layer_order]

\* the file written, or the string None when the dialog was cancelled
save_workspace(s, file_path) ==
    IF file_path = "" THEN None ELSE json_dump(WorkspaceData(s))

\* The window is left as it is; the call on record names the scene and the
\* picture of the moment.  One workspace file is written in a behaviour.
SaveWorkspace ==
    /\ probe = <<>>
    /\ budget > 0
    /\ \E file_path \in {"", "workspace.json"} :
          probe' = [op |-> "save_workspace",
                    data |-> [file_path |-> file_path, scene |-> SceneData(Self),
                              latest_image |-> latest_image, fresh |-> Fresh(Self)],
                    result |-> save_workspace(Self, file_path)]
    /\ UNCHANGED designer

\* the user opens the workspace file written before
LoadSavedWorkspace ==
    /\ probe # <<>>
    /\ probe.op = "save_workspace"
    /\ probe.data.file_path # ""
    /\ Committed(load_workspace(Begin(Self), json_load(probe.result)),
                 [probe EXCEPT !.op = "load_workspace"])

\* The handlers that make, change and reorder the parts of a scene, and the
\* two that write and read the workspace file.
NextSave ==
    \/ LoadWorkspace
    \/ UpdateBackgroundMode \/ SetBackgroundNumeric \/ SetGradientDirection
    \/ AddText \/ AddImage \/ DuplicateOverlay \/ RemoveText
    \/ OnTreeSelect \/ ShiftLayer \/ UpdateShadowValue
    \/ SaveWorkspace \/ LoadSavedWorkspace

SpecSave == InitRender /\ [][NextSave]_vars

\* C17: load_workspace on the file save_workspace wrote leaves the scene
\* that was saved: the same background fields, the same text, image and
\* overlay layers with their ids and nested shadow and stroke in the same
\* collection order, and the same layer_order; when the picture was the
\* render of the scene at the save, the render after the load returns the
\* same picture.
SaveLoadRoundTrip ==
    [][(probe # <<>> /\ probe.op = "save_workspace" /\ probe' # probe) =>
          /\ SceneData(Self') = probe.data.scene
          /\ probe.data.fresh =>
                 /\ raised' = None
                 /\ latest_image' = probe.data.latest_image]_vars

\* a scene of three kinds of layers, reordered and edited, saved with an
\* image layer without a file, changed after the save and loaded again
SaveLoadRoundTripWitness ==
    /\ probe # <<>>
    /\ probe.op = "load_workspace"
    /\ SceneData(Self) = probe.data.scene
    /\ Len(layer_order) >= 2
    /\ Len(text_layers) >= 1
    /\ Len(overlay_layers) >= 1
    /\ \E i \in 1 .. Len(image_layers) : image_layers[i].image_path = None
    /\ probe.data.fresh
    /\ latest_image = probe.data.latest_image
    /\ latest_image # Constructed(FontFiles, [p \in Paths |-> "ok"]).latest_image

\* a call of _apply_background_corrections on record
CorrectionsProbe == probe # <<>> /\ probe.op = "_apply_background_corrections"

\* one enhancement, left out when its factor is 1.0
Enhanced(kind, img, factor) ==
    IF factor = 100 THEN img
    ELSE IF kind = "brightness" THEN EnhanceBrightness(img, factor)
    ELSE IF kind = "contrast" THEN EnhanceContrast(img, factor)
    ELSE EnhanceColor(img, factor)

\* C21: the image _apply_background_corrections returns is the brightness
\* enhancement, then the contrast enhancement, then the saturation
\* enhancement of its argument, each one left out exactly when its factor is
\* 1.0; with the three factors at 1.0 the argument is returned unchanged.
CorrectionsInOrder ==
    CorrectionsProbe =>
        /\ probe.result =
               Enhanced("saturation",
                   Enhanced("contrast",
                       Enhanced("brightness", probe.data.img, probe.data.brightness),
                       probe.data.contrast),
                   probe.data.saturation)
        /\ (probe.data.brightness = 100 /\ probe.data.contrast = 100
               /\ probe.data.saturation = 100) => probe.result = probe.data.img

\* the three corrections applied, where the other order of brightness and
\* contrast gives another picture
CorrectionsInOrderWitness ==
    /\ CorrectionsProbe
    /\ probe.data.brightness = 150
    /\ probe.data.contrast = 50
    /\ probe.data.saturation = 150
    /\ probe.result # probe.data.img
    /\ probe.result #
           EnhanceColor(EnhanceBrightness(EnhanceContrast(probe.data.img, 50), 150), 150)

\* the ids of a collection
LayerIds(layers) == {layers[i].id : i \in 1 .. Len(layers)}

\* C22: each of current_text_id, current_overlay_id and current_image_id is
\* None or the id of a layer of its own collection.
CurrentIdsExist ==
    /\ current_text_id = None \/ current_text_id \in LayerIds(text_layers)
    /\ current_overlay_id = None \/ current_overlay_id \in LayerIds(overlay_layers)
    /\ current_image_id = None \/ current_image_id \in LayerIds(image_layers)

\* after _reset_layers the current overlay id is still the id of an overlay
\* the reset cleared: the only overlay is the new default banner
CurrentOverlayCleared ==
    /\ current_overlay_id # None
    /\ current_overlay_id \notin LayerIds(overlay_layers)
    /\ Len(overlay_layers) = 1
    /\ overlay_layers[1].label = "Banner"
    /\ Len(text_layers) = 2
    /\ current_text_id = text_layers[1].id
    /\ image_layers = <<>>

\* the number of entries of the order that name the layer
EntryCount(order, layer_type, layer) ==
    Cardinality({i \in 1 .. Len(order) : order[i] = <<layer_type, layer.id>>})

OnceInOrder(order, layer_type, layers) ==
    \A i \in 1 .. Len(layers) : EntryCount(order, layer_type, layers[i]) = 1

\* every layer has one entry and there are no other entries
OrderComplete(s) ==
    /\ OnceInOrder(s.layer_order, "text", s.text_layers)
    /\ OnceInOrder(s.layer_order, "image", s.image_layers)
    /\ OnceInOrder(s.layer_order, "overlay", s.overlay_layers)
    /\ Len(s.layer_order) = TotalLayers(s)

\* one layer was appended to the collection (add or duplicate; a reset
\* replaces the text layers)
Grew(before, after) ==
    /\ Len(after) = Len(before) + 1
    /\ SubSeq(after, 1, Len(before)) = before

\* the order before with the entry of the last layer of the collection
WithNewest(order, layer_type, layers) ==
    Append(order, <<layer_type, layers[Len(layers)].id>>)

\* C23: under add, duplicate, remove, select, shift and reset every layer of
\* the three collections has exactly one (type, id) entry in layer_order and
\* len(layer_order) is the number of layers; a step that appends a layer to
\* a collection appends its entry at the end of layer_order.
OneEntryPerLayer ==
    /\ []OrderComplete(Self)
    /\ [][/\ (Grew(text_layers, text_layers')
                 /\ UNCHANGED <<image_layers, overlay_layers>>) =>
                 layer_order' = WithNewest(layer_order, "text", text_layers')
          /\ (Grew(image_layers, image_layers')
                 /\ UNCHANGED <<text_layers, overlay_layers>>) =>
                 layer_order' = WithNewest(layer_order, "image", image_layers')
          /\ (Grew(overlay_layers, overlay_layers')
                 /\ UNCHANGED <<text_layers, image_layers>>) =>
                 layer_order' = WithNewest(layer_order, "overlay", overlay_layers')]_vars

\* a text layer added or duplicated above an image layer, after a removal
OneEntryPerLayerWitness ==
    /\ OrderComplete(Self)
    /\ Len(image_layers) = 1
    /\ Len(text_layers) = 2
    /\ Len(layer_order) = 4
    /\ layer_order[3] = <<"image", image_layers[1].id>>
    /\ layer_order[4] = <<"text", text_layers[2].id>>
    /\ layer_order[1][1] = "text" => layer_order[2][1] = "overlay"

\* the entry at position k of before is at position k + direction of after
\* and the other entries keep their order
MovedByOne(before, after, k, direction) ==
    /\ k + direction \in 1 .. Len(before)
    /\ Len(after) = Len(before)
    /\ after[k + direction] = before[k]
    /\ RemoveAt(after, k + direction) = RemoveAt(before, k)

\* _shift_layer(direction) returns before it changes anything
ShiftReturns(s, direction) ==
    \/ s.layer_tree.sel = <<>>
    \/ \A k \in 1 .. Len(s.layer_order) : s.layer_order[k] # s.layer_tree.sel[1]
    \/ s.layer_order[1] = s.layer_tree.sel[1] /\ direction = -1
    \/ s.layer_order[Len(s.layer_order)] = s.layer_tree.sel[1] /\ direction = 1

\* the order after _shift_layer(-1) and then _shift_layer(+1)
DownThenUp(s) == _shift_layer(Begin(_shift_layer(Begin(s), -1)), 1).layer_order

\* C24: a step that changes layer_order and no collection is a shift: an
\* entry is selected in the tree, it moves by exactly one position, up or
\* down and inside the list, and the other entries keep their relative
\* order, so the entries are the same; with nothing selected, or the
\* selected entry first for -1 or last for +1, no such step exists; and
\* _shift_layer(-1) followed by _shift_layer(+1) gives the order back.
ShiftPermutes ==
    /\ [](~ShiftReturns(Self, -1) => DownThenUp(Self) = layer_order)
    /\ [][(layer_order' # layer_order
              /\ UNCHANGED <<text_layers, image_layers, overlay_layers>>) =>
             \E direction \in {-1, 1}, k \in 1 .. Len(layer_order) :
                /\ ~ShiftReturns(Self, direction)
                /\ layer_order[k] = layer_tree.sel[1]
                /\ MovedByOne(layer_order, layer_order', k, direction)]_vars

\* the headline moved up by one of three places: it is above the
\* subheadline, the banner stays on top, the moved entry is selected
ShiftPermutesWitness ==
    /\ Len(layer_order) = 3
    /\ Len(text_layers) = 2
    /\ layer_order[1] = <<"text", text_layers[2].id>>
    /\ layer_order[2] = <<"text", text_layers[1].id>>
    /\ layer_order[3][1] = "overlay"
    /\ layer_tree.sel = <<layer_order[2]>>
    /\ text_layers[1].label = "Headline"

\* the step removed the layer at the selected row of the list box
RemovedAtRow(before, after, lb) ==
    /\ lb.sel # <<>>
    /\ lb.sel[1] < Len(before)
    /\ after = RemoveAt(before, lb.sel[1] + 1)

\* the neighbour rule: the layer at index max(0, idx - 1) of what remains,
\* None when nothing remains
Neighbour(after, idx) ==
    IF Len(after) > 0 THEN after[Max(0, idx - 1) + 1].id ELSE None

\* C25: after a remove of the layer at list index idx the current id of the
\* type is the id of the layer at index max(0, idx - 1) of the remaining
\* collection, or None when none remains, for text, overlay and image
\* layers alike.
RemoveSelectsNeighbour ==
    [][/\ RemovedAtRow(text_layers, text_layers', text_list) =>
              current_text_id' = Neighbour(text_layers', text_list.sel[1])
       /\ RemovedAtRow(overlay_layers, overlay_layers', overlay_list) =>
              current_overlay_id' = Neighbour(overlay_layers', overlay_list.sel[1])
       /\ RemovedAtRow(image_layers, image_layers', image_list) =>
              current_image_id' = Neighbour(image_layers', image_list.sel[1])]_vars

\* the headline, first of three text layers, was removed: the current text
\* layer is the last one, not the subheadline that is now first
RemoveFirstSelectsLast ==
    /\ Len(text_layers) = 2
    /\ text_layers[1].label = "Subheadline"
    /\ text_layers[2].label = "Teks 3"
    /\ current_text_id = text_layers[2].id
    /\ text_list.sel = <<1>>
    /\ layer_order = <<<<"text", text_layers[1].id>>, <<"overlay", overlay_layers[1].id>>,
                       <<"text", text_layers[2].id>>>>
    /\ budget = MaxSteps - 3

(***************************************************************************)
(* The text layers as objects.  A dataclass instance is an object of the   *)
(* store, named by its address (its index in heap.objects); a TextLayer    *)
(* holds the addresses of its ShadowSettings and StrokeSettings, and       *)
(* text_layers is a list of addresses.  A dict is a value: the dicts of    *)
(* asdict and of the factory are temporaries no object refers to.  In a    *)
(* dict a nested dict is [type |-> "dict", fields], an instance is         *)
(* [type |-> its class, addr].                                             *)
(***************************************************************************)
EmptyHeap == [objects |-> <<>>, text_layers |-> <<>>, current_text_id |-> None]

\* the TextLayer of address a with its settings looked up
Deref(h, a) ==
    [h.objects[a] EXCEPT !.shadow = h.objects[@], !.stroke = h.objects[@]]

\* Variant: the field map of the instance itself, nested instances kept.
heap_asdictShallow(h, a) ==
    [h.objects[a] EXCEPT !.shadow = [type |-> "ShadowSettings", addr |-> @],
                         !.stroke = [type |-> "StrokeSettings", addr |-> @]]

\* dataclasses.asdict: nested dataclasses become dicts of their own
heap_asdict(h, a) ==
    [h.objects[a] EXCEPT !.shadow = [type |-> "dict", fields |-> h.objects[@]],
                         !.stroke = [type |-> "dict", fields |-> h.objects[@]]]

\* the dict of a layer given by value, as _add_default_layers writes it
DictOf(layer) ==
    [layer EXCEPT !.shadow = [type |-> "dict", fields |-> @],
                  !.stroke = [type |-> "dict", fields |-> @]]

\* the three branches of the factory for a nested setting: a dict builds a
\* new instance, an instance of the class is kept, anything else gives the
\* default instance
NestedIsNew(data, key, cls) ==
    key \notin DOMAIN data \/ data[key].type # cls

NestedObject(data, key, defaults) ==
    IF key \in DOMAIN data /\ data[key].type = "dict"
    THEN Construct(defaults, data[key].fields)
    ELSE defaults

\* create_text_layer on the store: the objects it allocates are appended,
\* the TextLayer last
heap_create_text_layer(h, data, new_id) ==
    LET objects1 == IF NestedIsNew(data, "shadow", "ShadowSettings")
                    THEN Append(h.objects, NestedObject(data, "shadow", ShadowSettings))
                    ELSE h.objects
        shadow == IF NestedIsNew(data, "shadow", "ShadowSettings")
                  THEN Len(objects1) ELSE data.shadow.addr
        objects2 == IF NestedIsNew(data, "stroke", "StrokeSettings")
                    THEN Append(objects1, NestedObject(data, "stroke", StrokeSettings))
                    ELSE objects1
        stroke == IF NestedIsNew(data, "stroke", "StrokeSettings")
                  THEN Len(objects2) ELSE data.stroke.addr
    IN  [h EXCEPT !.objects =
            Append(objects2, [Construct(TextLayer(new_id), data) EXCEPT
                                 !.shadow = shadow, !.stroke = stroke])]

\* text_layers.append(the object allocated last), which becomes current
HeapAppended(h) ==
    [h EXCEPT !.text_layers = Append(@, Len(h.objects)),
              !.current_text_id = h.objects[Len(h.objects)].id]

\* the store after __init__: the headline and the subheadline, the headline
\* current
HeapConstructed ==
    LET s == Constructed(FontFiles, [p \in Paths |-> "ok"])
        h1 == HeapAppended(heap_create_text_layer(EmptyHeap, DictOf(s.text_layers[1]),
                                                  s.text_layers[1].id))
        h2 == HeapAppended(heap_create_text_layer(h1, DictOf(s.text_layers[2]),
                                                  s.text_layers[2].id))
    IN  [h2 EXCEPT !.current_text_id = s.current_text_id]

\* _get_current_text: the address of the current layer, 0 for None
heap_get_current_text(h) ==
    IF \E i \in 1 .. Len(h.text_layers) : h.objects[h.text_layers[i]].id = h.current_text_id
    THEN h.text_layers[CHOOSE i \in 1 .. Len(h.text_layers) :
                          /\ h.objects[h.text_layers[i]].id = h.current_text_id
                          /\ \A j \in 1 .. i - 1 :
                                h.objects[h.text_layers[j]].id # h.current_text_id]
    ELSE 0

\* _duplicate_text_layer: clone = create_text_layer(asdict(current)), then
\* clone.id and clone.label are assigned in place
heap_duplicate_text_layer(h, new_id) ==
    LET current == heap_get_current_text(h)
        h1 == heap_create_text_layer(h, heap_asdict(h, current), new_id)
        clone == Len(h1.objects)
    IN  HeapAppended([h1 EXCEPT !.objects[clone].id = new_id,
                                !.objects[clone].label =
                                    h.objects[current].label \o " (copy)"])

\* layer.shadow.enabled = not layer.shadow.enabled
heap_toggle_text_shadow(h) ==
    LET layer == heap_get_current_text(h)
    IN  [h EXCEPT !.objects[h.objects[layer].shadow].enabled = ~@]

\* setattr(layer.shadow, field_name, value)
heap_update_shadow_value(h, field_name, value) ==
    LET layer == heap_get_current_text(h)
    IN  [h EXCEPT !.objects[h.objects[layer].shadow][field_name] = value]

\* setattr(layer, field_name, value), or layer.stroke.width = value
heap_update_current_text(h, field_name, value) ==
    LET layer == heap_get_current_text(h)
    IN  IF field_name = "stroke_width"
        THEN [h EXCEPT !.objects[h.objects[layer].stroke].width = value]
        ELSE [h EXCEPT !.objects[layer][field_name] = value]

\* a handler returns: s is the window it leaves, h the store it leaves
HeapReturns(s, h) == Stored(s, probe, h)

HeapDuplicateText ==
    /\ _get_current_text(Self) # 0
    /\ Len(text_layers) < MaxLayers
    /\ HeapReturns(_duplicate_text_layer(Begin(Self)),
                   heap_duplicate_text_layer(heap, uuid4(Self, 1)))

HeapOnTextSelect ==
    \E idx \in 0 .. Len(text_list.items) - 1 :
        /\ text_layers[idx + 1].id # current_text_id
        /\ HeapReturns(_on_text_select(Begin(Self), idx),
                       [heap EXCEPT !.current_text_id =
                                        heap.objects[heap.text_layers[idx + 1]].id])

HeapToggleTextShadow ==
    /\ _get_current_text(Self) # 0
    /\ HeapReturns(_toggle_text_shadow(Begin(Self)), heap_toggle_text_shadow(heap))

HeapUpdateShadowValue ==
    \E edit \in {<<"opacity", 0>>, <<"offset_x", -3>>} :
        /\ _get_current_text(Self) # 0
        /\ HeapReturns(_update_shadow_value(Begin(Self), edit[1], edit[2]),
                       heap_update_shadow_value(heap, edit[1], edit[2]))

HeapUpdateCurrentText ==
    \E edit \in {<<"stroke_width", 0>>, <<"color", "#0080ff">>} :
        /\ _get_current_text(Self) # 0
        /\ HeapReturns(_update_current_text(Begin(Self), edit[1], edit[2]),
                       heap_update_current_text(heap, edit[1], edit[2]))

NextHeap ==
    \/ HeapDuplicateText \/ HeapOnTextSelect
    \/ HeapToggleTextShadow \/ HeapUpdateShadowValue \/ HeapUpdateCurrentText

InitHeap == Started(Constructed(FontFiles, [p \in Paths |-> "ok"]), MaxSteps, HeapConstructed)

SpecHeap == InitHeap /\ [][NextHeap]_vars

\* the text layers of the store, by value
HeapLayers(h) == [i \in 1 .. Len(h.text_layers) |-> Deref(h, h.text_layers[i])]

\* no object is the layer, the shadow or the stroke of two text layers
Unshared(h) ==
    \A i, j \in 1 .. Len(h.text_layers) :
        i # j =>
            /\ h.text_layers[i] # h.text_layers[j]
            /\ h.objects[h.text_layers[i]].shadow # h.objects[h.text_layers[j]].shadow
            /\ h.objects[h.text_layers[i]].stroke # h.objects[h.text_layers[j]].stroke

\* C26: a clone and its source are different objects with different shadow
\* and stroke objects, so an edit of the current text layer, nested shadow
\* and stroke fields included, changes the fields of that layer alone:
\* every other text layer, the source of a clone or the clone of a source,
\* keeps every field.  The layers of the store are then the layers taken as
\* values, which is how every other specification holds them.
NoSharedState ==
    /\ []Unshared(heap)
    /\ [](HeapLayers(heap) = text_layers /\ heap.current_text_id = current_text_id)
    /\ [][\A i \in 1 .. Len(heap.text_layers) :
             HeapLayers(heap')[i] # HeapLayers(heap)[i] =>
                 /\ heap.text_layers[i] = heap_get_current_text(heap)
                 /\ Len(heap'.text_layers) = Len(heap.text_layers)]_vars

\* the headline was duplicated; the shadow of the clone was switched off and
\* its stroke width set to 0 while the source keeps both
NoSharedStateWitness ==
    /\ Len(heap.text_layers) = 3
    /\ HeapLayers(heap)[3].label = "Headline (copy)"
    /\ ~HeapLayers(heap)[3].shadow.enabled
    /\ HeapLayers(heap)[3].stroke.width = 0
    /\ HeapLayers(heap)[1].shadow.enabled
    /\ HeapLayers(heap)[1].stroke.width = 6
    /\ HeapLayers(heap)[1] = Constructed(FontFiles, [p \in Paths |-> "ok"]).text_layers[1]

(***************************************************************************)
(* Workspace files with a record no dataclass accepts: a text layer, or an *)
(* overlay, with the field "weight".                                       *)
(***************************************************************************)
BrokenWorkspaces ==
    {[background |-> [mode |-> "gradient"],
      text_layers |-> <<WithKey(WorkspaceTexts[1], "weight", 700)>>,
      image_layers |-> WorkspaceImages, overlay_layers |-> WorkspaceOverlays,
      layer_order |-> <<<<"text", "t">>>>],
     [background |-> [mode |-> "gradient"],
      text_layers |-> WorkspaceTexts, image_layers |-> WorkspaceImages,
      overlay_layers |-> <<WithKey(WorkspaceOverlays[1], "weight", 700)>>,
      layer_order |-> <<<<"text", "t">>>>]}

\* the user opens a workspace file, once, at any time
OpenWorkspace ==
    /\ probe = <<>>
    /\ \E data \in Workspaces \cup BrokenWorkspaces :
          Committed(load_workspace(Begin(Self), data),
                    [op |-> "load_workspace", data |-> data, result |-> None])

NextLoad ==
    \/ OpenWorkspace
    \/ UpdateBackgroundMode \/ AddOverlay \/ AddImage \/ RemoveText \/ OnTextSelect

SpecLoad == InitRender /\ [][NextLoad]_vars

\* the scene with the three current ids
SceneAndSelection(s) ==
    [scene |-> SceneData(s), current_text_id |-> s.current_text_id,
     current_image_id |-> s.current_image_id,
     current_overlay_id |-> s.current_overlay_id]

\* C27: a load_workspace that ends with an exception leaves the background,
\* the three collections, layer_order and the current ids as they were
\* before the call.
LoadAllOrNothing ==
    [][(probe' # probe /\ raised' # None) =>
           SceneAndSelection(Self') = SceneAndSelection(Self)]_vars

\* a text record with an unknown field: the background of the file is in
\* place, the text layers and everything after them are the old ones
LoadLeftHalfway ==
    /\ probe # <<>>
    /\ probe.op = "load_workspace"
    /\ raised = "TypeError"
    /\ background.mode = "gradient"
    /\ text_layers = Constructed(FontFiles, [p \in Paths |-> "ok"]).text_layers
    /\ overlay_layers = Constructed(FontFiles, [p \in Paths |-> "ok"]).overlay_layers
    /\ layer_order = Constructed(FontFiles, [p \in Paths |-> "ok"]).layer_order
    /\ current_text_id = text_layers[1].id

\* C28: the wrap of an explicit line that holds a character other than a
\* space gives no empty output line.
WrapNoEmptyLine ==
    (WrapProbe /\ strip(probe.data.line) # <<>>) =>
        \A i \in 1 .. Len(probe.result.rendered_lines) :
            probe.result.rendered_lines[i] # <<>>

\* "aa " against a limit of one glyph: the word is wider than the limit,
\* the empty word after the space pushes it out and stays as the last line
WrapEmptyLastLine ==
    /\ WrapProbe
    /\ probe.data.line = <<"a", "a", " ">>
    /\ probe.data.tracking = 0
    /\ max_width_pixels(probe.data.max_width) = 1
    /\ probe.result.rendered_lines = <<<<"a", "a">>, <<>>>>

\* a render of a scene on record
BackgroundProbe == probe # <<>> /\ probe.op = "render_thumbnail"

\* the canvas of the scene of the probe with the background b
CanvasWith(b) ==
    render_thumbnail([Self EXCEPT !.background = b,
                                  !.layer_order = probe.data.layer_order]).latest_image

\* the fields the mode does not use, at their defaults
ActiveOnly(b) ==
    IF b.mode = "solid"
    THEN [BackgroundSettings EXCEPT !.mode = "solid", !.solid_color = b.solid_color]
    ELSE IF b.mode = "gradient"
    THEN [b EXCEPT !.blur_radius = BackgroundSettings.blur_radius,
                   !.solid_color = BackgroundSettings.solid_color,
                   !.image_path = BackgroundSettings.image_path]
    ELSE b

\* C29: in solid mode the canvas is the one of the scene with blur_radius,
\* brightness, contrast, saturation, the gradient settings and image_path
\* at their defaults, and in gradient mode the one of the scene with
\* blur_radius, solid_color and image_path at their defaults: two scenes
\* that differ only in those fields render the same canvas.
InactiveFieldsIgnored ==
    BackgroundProbe => probe.result = CanvasWith(ActiveOnly(probe.data.background))

\* a gradient under no layer, with another solid colour, a picture chosen
\* and a blur set: the canvas is the corrected gradient, not the solid one
InactiveFieldsIgnoredWitness ==
    /\ BackgroundProbe
    /\ probe.data.background.mode = "gradient"
    /\ probe.data.background.solid_color = "#0080ff"
    /\ probe.data.background.image_path = "photo.png"
    /\ probe.data.background.blur_radius = 4
    /\ probe.data.background.brightness = 50
    /\ probe.data.layer_order = <<>>
    /\ probe.result # CanvasWith([probe.data.background EXCEPT !.mode = "solid"])
    /\ probe.result # CanvasWith([probe.data.background EXCEPT !.brightness = 100])

\* the selected row of the list box, if any, is the row of the current layer,
\* and the rows are the labels of the collection in its order
RowIsCurrent(lb, layers, current) ==
    /\ lb.items = Labels(layers)
    /\ lb.sel # <<>> =>
           /\ lb.sel[1] < Len(layers)
           /\ layers[lb.sel[1] + 1].id = current

\* C30: in every state the rows of each list box are the labels of its
\* collection in order and a selected row idx is the row of the layer whose
\* id is the current id of the type; so the layer a remove deletes is the
\* one the current id names.
SelectionIsCurrent ==
    /\ [](/\ RowIsCurrent(text_list, text_layers, current_text_id)
          /\ RowIsCurrent(overlay_list, overlay_layers, current_overlay_id)
          /\ RowIsCurrent(image_list, image_layers, current_image_id))
    /\ [][/\ RemovedAtRow(text_layers, text_layers', text_list) =>
                 text_layers[text_list.sel[1] + 1].id = current_text_id
          /\ RemovedAtRow(overlay_layers, overlay_layers', overlay_list) =>
                 overlay_layers[overlay_list.sel[1] + 1].id = current_overlay_id
          /\ RemovedAtRow(image_layers, image_layers', image_list) =>
                 image_layers[image_list.sel[1] + 1].id = current_image_id]_vars

\* a tree row of an overlay that does not exist was selected while a row of
\* the overlay list box was selected: the current id names no overlay and
\* the selected row is the row of another one
SelectedRowNotCurrent ==
    /\ overlay_list.sel = <<0>>
    /\ Len(overlay_layers) > 0
    /\ layer_tree.sel = <<<<"overlay", current_overlay_id>>>>
    /\ current_overlay_id \notin LayerIds(overlay_layers)
    /\ overlay_layers[1].id # current_overlay_id

====
